---- MODULE Spec2Model ----
(***************************************************************************)
(* Exam attempt lifecycle, answer ledger and scoring engine of the         *)
(* examination subsystem (AttemptService, AnswerService).                  *)
(*                                                                         *)
(* Every handler is split at its database calls (its awaits): one action   *)
(* per database call, with the synchronous code that follows the call up   *)
(* to the next one.  A request slot holds the handler's local variables    *)
(* between two calls.  Marks and scores are counted in hundredths of a     *)
(* mark (-0.66 is -66), ratios are kept exact as numerator/denominator.    *)
(***************************************************************************)
EXTENDS Integers, Sequences, FiniteSets, TLC

VARIABLES
    exams,          \* Exam rows, by id
    questions,      \* Question rows, by id
    purchases,      \* Purchase rows
    attempts,       \* Attempt rows (a set of records, each with its id)
    answers,        \* Answer rows (a set of records, each with its id)
    nextAttemptId,  \* next generated attempt id
    nextAnswerId,   \* next generated answer id
    now,            \* the server clock (new Date())
    req,            \* per request slot: the running handler and its locals
    resp            \* the response of the last finished call

vars == <<exams, questions, purchases, attempts, answers, nextAttemptId,
          nextAnswerId, now, req, resp>>

----------------------------------------------------------------------------
(* Bounds of the model *)

MaxAttempts == 2
MaxNow == 1
MaxMcq == 3
MaxTimeSpent == 60

----------------------------------------------------------------------------
(* Optional values: null / undefined is None, a present value v is Some(v) *)

None == <<>>
Some(v) == <<v>>
IsSet(o) == o # <<>>
Val(o) == o[1]

(* JavaScript truthiness of an optional string / number *)
TruthyStr(o) == IsSet(o) /\ Val(o) # ""
OrElse(o, d) == IF IsSet(o) /\ Val(o) # 0 THEN Val(o) ELSE d

(* An exact ratio n/d (d = 0 is JavaScript's Infinity or NaN) *)
Ratio(n, d) == [num |-> n, den |-> d]

Max(a, b) == IF a >= b THEN a ELSE b

(* Prisma update: the fields of data that are present replace the row's *)
Merge(row, data) ==
    [f \in DOMAIN row |-> IF f \in DOMAIN data THEN data[f] ELSE row[f]]

Empty == <<>>

(* a data field is written only when it is not undefined *)
Field(name, o) == IF IsSet(o) THEN name :> o ELSE Empty

----------------------------------------------------------------------------
(* Users and roles *)

Students == {"s1", "s2"}
Teachers == {"t1", "t2"}
Admins == {"adm"}
Users == Students \cup Teachers \cup Admins

Role(u) == IF u \in Admins THEN "ADMIN"
           ELSE IF u \in Teachers THEN "TEACHER" ELSE "STUDENT"

AttemptStatus == {"IN_PROGRESS", "SUBMITTED", "EVALUATED", "COMPLETED"}

Procs == {"r1", "r2"}

Idle == [op |-> "idle"]

NoResp == [op |-> "none", result |-> "none", slot |-> "none"]

----------------------------------------------------------------------------
(* The catalogue the core reads: exams, questions, purchases *)

ExamIds == {"e1", "e2"}

InitExams ==
    [e \in ExamIds |->
        IF e = "e1"
        THEN [id |-> "e1", isActive |-> TRUE, isFree |-> TRUE,
              totalMarks |-> 1000, negativeMarking |-> TRUE,
              correctMark |-> Some(200), incorrectMark |-> Some(-66),
              teacherId |-> "t1", testSeriesId |-> None, totalQuestions |-> 2]
        ELSE [id |-> "e2", isActive |-> TRUE, isFree |-> FALSE,
              totalMarks |-> 500, negativeMarking |-> FALSE,
              correctMark |-> Some(100), incorrectMark |-> Some(0),
              teacherId |-> "t2", testSeriesId |-> Some("ts1"),
              totalQuestions |-> 1]]

QuestionIds == {"q1", "q2", "q3"}

InitQuestions ==
    [q \in QuestionIds |->
        CASE q = "q1" -> [id |-> "q1", examId |-> "e1", type |-> "MCQ",
                          correctOption |-> Some("a"), options |-> {"a", "b"},
                          marks |-> Some(200), isActive |-> TRUE]
          [] q = "q2" -> [id |-> "q2", examId |-> "e1", type |-> "DESCRIPTIVE",
                          correctOption |-> None, options |-> {},
                          marks |-> Some(1000), isActive |-> TRUE]
          [] q = "q3" -> [id |-> "q3", examId |-> "e2", type |-> "MCQ",
                          correctOption |-> Some("b"), options |-> {"a", "b"},
                          marks |-> Some(0), isActive |-> TRUE]]

InitPurchases ==
    {[userId |-> "s1", status |-> "COMPLETED", type |-> "TEST_SERIES",
      examId |-> None, testSeriesId |-> Some("ts1"), validTill |-> 1]}

----------------------------------------------------------------------------
(* Responses *)

Respond(p, o, r) ==
    /\ req' = [req EXCEPT ![p] = Idle]
    /\ resp' = [op |-> o, result |-> r, slot |-> p]

Continue(p, r) ==
    /\ req' = [req EXCEPT ![p] = r]
    /\ resp' = resp

----------------------------------------------------------------------------
(* AttemptService.create *)

CreateAttemptDto(examId) ==
    [examId |-> examId, status |-> None, timeSpent |-> None]

(* who asks to start which exam: "e0" is no exam, s2 has not bought e2 *)
CreateRequests ==
    {<<"s1", "e1">>, <<"s2", "e1">>, <<"s2", "e2">>, <<"s1", "e0">>}

FindActiveExam(id) ==
    IF id \in DOMAIN exams /\ exams[id].isActive THEN Some(exams[id]) ELSE None

checkExamAccess(userId, examId, isFree) ==
    \/ isFree
    \/ \E pu \in purchases :
          /\ pu.userId = userId
          /\ pu.status = "COMPLETED"
          /\ pu.type = "INDIVIDUAL_EXAM"
          /\ pu.examId = Some(examId)
    \/ /\ examId \in DOMAIN exams
       /\ IsSet(exams[examId].testSeriesId)
       /\ \E pu \in purchases :
             /\ pu.userId = userId
             /\ pu.status = "COMPLETED"
             /\ pu.type = "TEST_SERIES"
             /\ pu.testSeriesId = exams[examId].testSeriesId

InProgressAttempts_wrongStatus(userId, examId) ==
    {a \in attempts : /\ a.userId = userId
                      /\ a.examId = examId
                      /\ a.status = "SUBMITTED"}

InProgressAttempts(userId, examId) ==
    {a \in attempts : /\ a.userId = userId
                      /\ a.examId = examId
                      /\ a.status = "IN_PROGRESS"}

NewAttempt_fixedMaxScore(id, userId, exam, dto) ==
    [id |-> id, userId |-> userId, examId |-> exam.id,
     status |-> IF TruthyStr(dto.status) THEN Val(dto.status) ELSE "IN_PROGRESS",
     timeSpent |-> dto.timeSpent,
     maxScore |-> 1000,
     submitTime |-> None, endTime |-> None,
     score |-> None, percentage |-> None,
     correctAnswers |-> None, incorrectAnswers |-> None,
     unattempted |-> None, accuracy |-> None,
     rank |-> None, evaluationStatus |-> None, evaluatedBy |-> None,
     feedback |-> None, answerSheetUrl |-> None]

NewAttempt(id, userId, exam, dto) ==
    [id |-> id, userId |-> userId, examId |-> exam.id,
     status |-> IF TruthyStr(dto.status) THEN Val(dto.status) ELSE "IN_PROGRESS",
     timeSpent |-> dto.timeSpent,
     maxScore |-> exam.totalMarks,
     submitTime |-> None, endTime |-> None,
     score |-> None, percentage |-> None,
     correctAnswers |-> None, incorrectAnswers |-> None,
     unattempted |-> None, accuracy |-> None,
     rank |-> None, evaluationStatus |-> None, evaluatedBy |-> None,
     feedback |-> None, answerSheetUrl |-> None]

AttemptCreateFindExam(p, u, d) ==
    /\ req[p] = Idle
    /\ nextAttemptId <= MaxAttempts
    /\ IF IsSet(FindActiveExam(d.examId))
       THEN Continue(p, [op |-> "attemptCreate", pc |-> "access", userId |-> u,
                         dto |-> d, exam |-> Val(FindActiveExam(d.examId))])
       ELSE Respond(p, "attemptCreate", "NotFound")
    /\ UNCHANGED <<exams, questions, purchases, attempts, answers,
                   nextAttemptId, nextAnswerId, now>>

AttemptCreateCheckAccess(p) ==
    /\ req[p].op = "attemptCreate" /\ req[p].pc = "access"
    /\ IF checkExamAccess(req[p].userId, req[p].exam.id, req[p].exam.isFree)
       THEN Continue(p, [req[p] EXCEPT !.pc = "existing"])
       ELSE Respond(p, "attemptCreate", "Forbidden")
    /\ UNCHANGED <<exams, questions, purchases, attempts, answers,
                   nextAttemptId, nextAnswerId, now>>

AttemptCreateFindExisting(p) ==
    /\ req[p].op = "attemptCreate" /\ req[p].pc = "existing"
    /\ IF InProgressAttempts(req[p].userId, req[p].exam.id) # {}
       THEN Respond(p, "attemptCreate", "BadRequest")
       ELSE Continue(p, [req[p] EXCEPT !.pc = "insert"])
    /\ UNCHANGED <<exams, questions, purchases, attempts, answers,
                   nextAttemptId, nextAnswerId, now>>

AttemptCreateInsert(p) ==
    /\ req[p].op = "attemptCreate" /\ req[p].pc = "insert"
    /\ attempts' = attempts \cup
          {NewAttempt(nextAttemptId, req[p].userId, req[p].exam, req[p].dto)}
    /\ nextAttemptId' = nextAttemptId + 1
    /\ Respond(p, "attemptCreate", "OK")
    /\ UNCHANGED <<exams, questions, purchases, answers, nextAnswerId, now>>

----------------------------------------------------------------------------
(* AttemptService.calculateScore: the Scoring Engine.  rows are the answers
   of the attempt, each joined with its question. *)

IsMcqAnswered_anyAnswer(r) == r.question.type = "MCQ"

IsMcqAnswered(r) ==
    r.question.type = "MCQ" /\ TruthyStr(r.answer.selectedOption)

IsMcqCorrect(r) ==
    IsMcqAnswered(r) /\ r.answer.selectedOption = r.question.correctOption

IsEvaluatedDescriptive(r) ==
    r.question.type = "DESCRIPTIVE" /\ IsSet(r.answer.marks)

(* answer.marks >= answer.question.marks / 2, with null / 2 = 0 *)
IsDescriptiveCorrect(r) ==
    /\ IsEvaluatedDescriptive(r)
    /\ 2 * Val(r.answer.marks) >=
          (IF IsSet(r.question.marks) THEN Val(r.question.marks) ELSE 0)

(* what one answer adds to the running score *)
AnswerScore(exam, r) ==
    (IF IsMcqAnswered(r)
     THEN IF IsMcqCorrect(r)
          THEN OrElse(r.question.marks, 100)
          ELSE IF exam.negativeMarking THEN OrElse(exam.incorrectMark, 0) ELSE 0
     ELSE 0)
    + (IF IsEvaluatedDescriptive(r) THEN Val(r.answer.marks) ELSE 0)

RECURSIVE SumScores(_, _)
SumScores(exam, rows) ==
    IF rows = {} THEN 0
    ELSE LET r == CHOOSE x \in rows : TRUE
         IN AnswerScore(exam, r) + SumScores(exam, rows \ {r})

ClampScore_unclamped(raw) == raw

ClampScore(raw) == Max(0, raw)

Accuracy_overIncorrect(correct, incorrect) ==
    IF correct > 0 THEN Ratio(correct * 100, incorrect) ELSE Ratio(0, 1)

Accuracy(correct, incorrect) ==
    IF correct > 0 THEN Ratio(correct * 100, correct + incorrect)
    ELSE Ratio(0, 1)

(* examQuestions.length - answers.length *)
Unattempted_countedOnly(examQuestionCount, rows) ==
    examQuestionCount
    - Cardinality({r \in rows : IsMcqAnswered(r) \/ IsEvaluatedDescriptive(r)})

Unattempted(examQuestionCount, rows) == examQuestionCount - Cardinality(rows)

calculateScore(exam, rows, examQuestionCount) ==
    LET correct == Cardinality({r \in rows :
                       IsMcqCorrect(r) \/ IsDescriptiveCorrect(r)})
        incorrect == Cardinality({r \in rows :
                       \/ IsMcqAnswered(r) /\ ~IsMcqCorrect(r)
                       \/ IsEvaluatedDescriptive(r) /\ ~IsDescriptiveCorrect(r)})
    IN [score |-> ClampScore(SumScores(exam, rows)),
        correctAnswers |-> correct,
        incorrectAnswers |-> incorrect,
        unattempted |-> Unattempted(examQuestionCount, rows),
        accuracy |-> Accuracy(correct, incorrect)]

----------------------------------------------------------------------------
(* AttemptService.update, called by AttemptController.update *)

BlankUpdateAttemptDto ==
    [status |-> None, timeSpent |-> None, score |-> None, percentage |-> None,
     rank |-> None, correctAnswers |-> None, incorrectAnswers |-> None,
     unattempted |-> None, accuracy |-> None, answerSheetUrl |-> None,
     evaluationStatus |-> None, feedback |-> None, evaluatedBy |-> None]

StudentUpdateDtos ==
    {[BlankUpdateAttemptDto EXCEPT !.status = Some(s)] :
        s \in {"SUBMITTED", "COMPLETED", "EVALUATED"}}

TeacherUpdateDtos ==
    {[BlankUpdateAttemptDto EXCEPT !.status = Some("EVALUATED"),
                                   !.score = Some(700)],
     [BlankUpdateAttemptDto EXCEPT !.status = Some("IN_PROGRESS")]}

(* AttemptController.update: the role decides the branch *)
IsTeacherRole(u) == Role(u) \in {"TEACHER", "ADMIN"}

StudentStatusAllowed(status) == status \in {"SUBMITTED", "COMPLETED"}

(* the student branch of updateData, before scoring *)
StudentUpdateData_writesScore(d, time) ==
    (IF IsSet(d.status)
     THEN ("status" :> Val(d.status))
          @@ (IF Val(d.status) = "SUBMITTED"
              THEN "submitTime" :> Some(time) ELSE Empty)
          @@ (IF Val(d.status) = "COMPLETED"
              THEN "endTime" :> Some(time) ELSE Empty)
     ELSE Empty)
    @@ (IF IsSet(d.timeSpent) THEN "timeSpent" :> d.timeSpent ELSE Empty)
    @@ (IF IsSet(d.score) THEN "score" :> d.score ELSE Empty)

StudentUpdateData(d, time) ==
    (IF IsSet(d.status)
     THEN ("status" :> Val(d.status))
          @@ (IF Val(d.status) = "SUBMITTED"
              THEN "submitTime" :> Some(time) ELSE Empty)
          @@ (IF Val(d.status) = "COMPLETED"
              THEN "endTime" :> Some(time) ELSE Empty)
     ELSE Empty)
    @@ (IF IsSet(d.timeSpent) THEN "timeSpent" :> d.timeSpent ELSE Empty)

(* the score fields a student submit adds to updateData *)
ScoreUpdateData(scoreData, maxScore) ==
    [score |-> Some(scoreData.score),
     correctAnswers |-> Some(scoreData.correctAnswers),
     incorrectAnswers |-> Some(scoreData.incorrectAnswers),
     unattempted |-> Some(scoreData.unattempted),
     accuracy |-> Some(scoreData.accuracy),
     percentage |-> Some(Ratio(scoreData.score * 100, maxScore))]

(* the teacher branch of updateData *)
TeacherUpdateData(d, userId, maxScore) ==
    (IF IsSet(d.evaluationStatus)
     THEN "evaluationStatus" :> d.evaluationStatus ELSE Empty)
    @@ (IF IsSet(d.feedback) THEN "feedback" :> d.feedback ELSE Empty)
    @@ (IF IsSet(d.score)
        THEN [score |-> d.score,
              percentage |-> Some(Ratio(Val(d.score) * 100, maxScore))]
        ELSE Empty)
    @@ (IF d.status = Some("EVALUATED")
        THEN [status |-> "EVALUATED", evaluatedBy |-> Some(userId)]
        ELSE Empty)
    @@ (IF IsSet(d.correctAnswers)
        THEN "correctAnswers" :> d.correctAnswers ELSE Empty)
    @@ (IF IsSet(d.incorrectAnswers)
        THEN "incorrectAnswers" :> d.incorrectAnswers ELSE Empty)
    @@ (IF IsSet(d.unattempted)
        THEN "unattempted" :> d.unattempted ELSE Empty)
    @@ (IF IsSet(d.accuracy) THEN "accuracy" :> d.accuracy ELSE Empty)
    @@ (IF IsSet(d.rank) THEN "rank" :> d.rank ELSE Empty)
    @@ (IF IsSet(d.answerSheetUrl)
        THEN "answerSheetUrl" :> d.answerSheetUrl ELSE Empty)

AttemptById(id) == {a \in attempts : a.id = id}

AttemptUpdateFind(p, u, id, d) ==
    /\ req[p] = Idle
    /\ LET isTeacher == IsTeacherRole(u)
           found == AttemptById(id)
       IN IF found = {}
          THEN Respond(p, "attemptUpdate", "NotFound")
          ELSE LET a == CHOOSE x \in found : TRUE
               IN IF ~isTeacher /\ a.userId # u
                  THEN Respond(p, "attemptUpdate", "Forbidden")
                  ELSE IF /\ ~isTeacher
                          /\ IsSet(d.status)
                          /\ ~StudentStatusAllowed(Val(d.status))
                  THEN Respond(p, "attemptUpdate", "BadRequest")
                  ELSE Continue(p,
                         [op |-> "attemptUpdate",
                          pc |-> IF ~isTeacher /\ d.status = Some("SUBMITTED")
                                 THEN "answers" ELSE "write",
                          userId |-> u, id |-> id, isTeacher |-> isTeacher,
                          dto |-> d, exam |-> exams[a.examId],
                          maxScore |-> a.maxScore, before |-> a.status,
                          rows |-> {}, scoreData |-> None,
                          data |-> IF isTeacher
                                   THEN TeacherUpdateData(d, u, a.maxScore)
                                   ELSE StudentUpdateData(d, now)])
    /\ UNCHANGED <<exams, questions, purchases, attempts, answers,
                   nextAttemptId, nextAnswerId, now>>

(* calculateScore: prisma.answer.findMany({ include: { question } }) *)
AttemptUpdateReadAnswers(p) ==
    /\ req[p].op = "attemptUpdate" /\ req[p].pc = "answers"
    /\ Continue(p, [req[p] EXCEPT
          !.pc = "questions",
          !.rows = {[answer |-> r, question |-> questions[r.questionId]] :
                      r \in {x \in answers : x.attemptId = req[p].id}}])
    /\ UNCHANGED <<exams, questions, purchases, attempts, answers,
                   nextAttemptId, nextAnswerId, now>>

(* calculateScore: prisma.question.findMany, then the computation *)
AttemptUpdateReadQuestions(p) ==
    /\ req[p].op = "attemptUpdate" /\ req[p].pc = "questions"
    /\ LET n == Cardinality({q \in DOMAIN questions :
                               questions[q].examId = req[p].exam.id})
           scoreData == calculateScore(req[p].exam, req[p].rows, n)
       IN Continue(p, [req[p] EXCEPT
             !.pc = "write",
             !.scoreData = Some(scoreData),
             !.data = ScoreUpdateData(scoreData, req[p].maxScore) @@ @])
    /\ UNCHANGED <<exams, questions, purchases, attempts, answers,
                   nextAttemptId, nextAnswerId, now>>

(* calculateScore's catch: a failing read (or computation) is logged and null
   is returned; "if (scoreData)" then leaves updateData as it was *)
ScoringFailedData_zeroScore(data) == [score |-> Some(0)] @@ data

ScoringFailedData(data) == data

AttemptUpdateScoringFails(p) ==
    /\ req[p].op = "attemptUpdate" /\ req[p].pc \in {"answers", "questions"}
    /\ Continue(p, [req[p] EXCEPT !.pc = "write",
                                  !.data = ScoringFailedData(@)])
    /\ UNCHANGED <<exams, questions, purchases, attempts, answers,
                   nextAttemptId, nextAnswerId, now>>

AttemptUpdateWrite(p) ==
    /\ req[p].op = "attemptUpdate" /\ req[p].pc = "write"
    /\ LET found == AttemptById(req[p].id)
       IN IF found = {}
          THEN /\ attempts' = attempts
               /\ Respond(p, "attemptUpdate", "NotFound")
          ELSE LET a == CHOOSE x \in found : TRUE
               IN /\ attempts' = (attempts \ {a}) \cup {Merge(a, req[p].data)}
                  /\ Respond(p, "attemptUpdate", "OK")
    /\ UNCHANGED <<exams, questions, purchases, answers,
                   nextAttemptId, nextAnswerId, now>>

----------------------------------------------------------------------------
(* AnswerService.create: the answer upsert *)

BlankAnswerDto ==
    [selectedOption |-> None, answerText |-> None, timeSpent |-> None]

AnswerPayloads ==
    {[BlankAnswerDto EXCEPT !.selectedOption = Some("a")],
     [BlankAnswerDto EXCEPT !.selectedOption = Some("b")],
     [BlankAnswerDto EXCEPT !.answerText = Some("essay")],
     [BlankAnswerDto EXCEPT !.timeSpent = Some(30)]}

CreateAnswerDto(attemptId, questionId, payload) ==
    [attemptId |-> attemptId, questionId |-> questionId,
     selectedOption |-> payload.selectedOption,
     answerText |-> payload.answerText,
     timeSpent |-> payload.timeSpent]

(* the status check of create: submitted and evaluated attempts are locked *)
CreateLocked_submittedOnly(status) == status = "SUBMITTED"

CreateLocked(status) == status = "SUBMITTED" \/ status = "EVALUATED"

(* marks computed at write time for an MCQ answer under negative marking *)
WriteTimeMarks(question, exam, dto) ==
    IF /\ question.type = "MCQ"
       /\ TruthyStr(dto.selectedOption)
       /\ exam.negativeMarking
    THEN IF dto.selectedOption = question.correctOption
         THEN exam.correctMark
         ELSE exam.incorrectMark
    ELSE None

AnswersOf(attemptId, questionId) ==
    {r \in answers : r.attemptId = attemptId /\ r.questionId = questionId}

(* the compound unique key attemptId_questionId of the Answer table: an
   insert of a second row for the pair is refused by the database *)
UniqueViolation_unconstrained(rows, attemptId, questionId) == FALSE

UniqueViolation(rows, attemptId, questionId) ==
    \E r \in rows : r.attemptId = attemptId /\ r.questionId = questionId

(* data of prisma.answer.update in create: undefined fields are not written,
   marks is always written (a number or null) *)
UpsertUpdateData_allFields(dto, marks) ==
    [selectedOption |-> dto.selectedOption, answerText |-> dto.answerText,
     timeSpent |-> dto.timeSpent, marks |-> marks]

UpsertUpdateData(dto, marks) ==
    Field("selectedOption", dto.selectedOption)
    @@ Field("answerText", dto.answerText)
    @@ Field("timeSpent", dto.timeSpent)
    @@ [marks |-> marks]

(* data of prisma.answer.create: an undefined optional column is null *)
NewAnswer(id, dto, marks) ==
    [id |-> id, attemptId |-> dto.attemptId, questionId |-> dto.questionId,
     selectedOption |-> dto.selectedOption, answerText |-> dto.answerText,
     timeSpent |-> dto.timeSpent, marks |-> marks,
     feedback |-> None, evaluatedBy |-> None, evaluatedAt |-> None]

AnswerCreateFindAttempt(p, u, d) ==
    /\ req[p] = Idle
    /\ LET found == AttemptById(d.attemptId)
       IN IF found = {}
          THEN Respond(p, "answerCreate", "NotFound")
          ELSE LET a == CHOOSE x \in found : TRUE
               IN IF a.userId # u
                  THEN Respond(p, "answerCreate", "Forbidden")
                  ELSE IF CreateLocked(a.status)
                  THEN Respond(p, "answerCreate", "BadRequest")
                  ELSE Continue(p, [op |-> "answerCreate", pc |-> "question",
                                    userId |-> u, dto |-> d,
                                    examId |-> a.examId,
                                    exam |-> exams[a.examId],
                                    seen |-> a.status,
                                    question |-> None, marks |-> None,
                                    existing |-> FALSE])
    /\ UNCHANGED <<exams, questions, purchases, attempts, answers,
                   nextAttemptId, nextAnswerId, now>>

AnswerCreateFindQuestion(p) ==
    /\ req[p].op = "answerCreate" /\ req[p].pc = "question"
    /\ IF req[p].dto.questionId \notin DOMAIN questions
       THEN Respond(p, "answerCreate", "NotFound")
       ELSE IF questions[req[p].dto.questionId].examId # req[p].examId
       THEN Respond(p, "answerCreate", "BadRequest")
       ELSE Continue(p, [req[p] EXCEPT
               !.pc = "existing",
               !.question = Some(questions[req[p].dto.questionId])])
    /\ UNCHANGED <<exams, questions, purchases, attempts, answers,
                   nextAttemptId, nextAnswerId, now>>

AnswerCreateFindExisting(p) ==
    /\ req[p].op = "answerCreate" /\ req[p].pc = "existing"
    /\ Continue(p, [req[p] EXCEPT
          !.pc = "write",
          !.existing = (AnswersOf(req[p].dto.attemptId,
                                  req[p].dto.questionId) # {}),
          !.marks = WriteTimeMarks(Val(req[p].question), req[p].exam,
                                   req[p].dto)])
    /\ UNCHANGED <<exams, questions, purchases, attempts, answers,
                   nextAttemptId, nextAnswerId, now>>

AnswerCreateWrite(p) ==
    /\ req[p].op = "answerCreate" /\ req[p].pc = "write"
    /\ LET d == req[p].dto
           rows == AnswersOf(d.attemptId, d.questionId)
       IN IF req[p].existing
          THEN IF rows = {}
               THEN /\ UNCHANGED <<answers, nextAnswerId>>
                    /\ Respond(p, "answerCreate", "NotFound")
               ELSE /\ answers' = (answers \ rows) \cup
                          {Merge(r, UpsertUpdateData(d, req[p].marks)) :
                              r \in rows}
                    /\ UNCHANGED nextAnswerId
                    /\ Respond(p, "answerCreate", "OK")
          ELSE IF UniqueViolation(answers, d.attemptId, d.questionId)
               THEN /\ UNCHANGED <<answers, nextAnswerId>>
                    /\ Respond(p, "answerCreate", "InternalError")
               ELSE /\ answers' = answers \cup
                          {NewAnswer(nextAnswerId, d, req[p].marks)}
                    /\ nextAnswerId' = nextAnswerId + 1
                    /\ Respond(p, "answerCreate", "OK")
    /\ UNCHANGED <<exams, questions, purchases, attempts, nextAttemptId, now>>

----------------------------------------------------------------------------
(* AnswerService.update: a student revises an existing answer *)

UpdateAnswerPayloads ==
    {[BlankAnswerDto EXCEPT !.selectedOption = Some("b")],
     [BlankAnswerDto EXCEPT !.selectedOption = Some("z")],
     [BlankAnswerDto EXCEPT !.timeSpent = Some(30)]}

(* the status check of update: only an attempt in progress is writable *)
UpdateLocked(status) == status # "IN_PROGRESS"

AnswerById(id) == {r \in answers : r.id = id}

OptionInvalid(question, dto) ==
    /\ question.type = "MCQ"
    /\ TruthyStr(dto.selectedOption)
    /\ Val(dto.selectedOption) \notin question.options

(* updateData of update, from the answer as read by findOne *)
AnswerUpdateData_replacesTime(answer, question, dto) ==
    (IF question.type = "MCQ"
     THEN Field("selectedOption", dto.selectedOption)
          @@ (IF TruthyStr(dto.selectedOption) /\ TruthyStr(answer.answerText)
              THEN [answerText |-> None] ELSE Empty)
     ELSE IF question.type = "DESCRIPTIVE"
     THEN Field("answerText", dto.answerText)
          @@ (IF TruthyStr(dto.answerText) /\ TruthyStr(answer.selectedOption)
              THEN [selectedOption |-> None] ELSE Empty)
     ELSE Empty)
    @@ Field("timeSpent", dto.timeSpent)

AnswerUpdateData(answer, question, dto) ==
    (IF question.type = "MCQ"
     THEN Field("selectedOption", dto.selectedOption)
          @@ (IF TruthyStr(dto.selectedOption) /\ TruthyStr(answer.answerText)
              THEN [answerText |-> None] ELSE Empty)
     ELSE IF question.type = "DESCRIPTIVE"
     THEN Field("answerText", dto.answerText)
          @@ (IF TruthyStr(dto.answerText) /\ TruthyStr(answer.selectedOption)
              THEN [selectedOption |-> None] ELSE Empty)
     ELSE Empty)
    @@ (IF IsSet(dto.timeSpent)
        THEN [timeSpent |-> Some(OrElse(answer.timeSpent, 0)
                                 + Val(dto.timeSpent))]
        ELSE Empty)

AnswerUpdateFind(p, u, id, d) ==
    /\ req[p] = Idle
    /\ LET found == AnswerById(id)
       IN IF found = {}
          THEN Respond(p, "answerUpdate", "NotFound")
          ELSE LET r == CHOOSE x \in found : TRUE
                   a == CHOOSE x \in attempts : x.id = r.attemptId
               IN /\ IsSet(d.timeSpent) =>
                        OrElse(r.timeSpent, 0) + Val(d.timeSpent) <= MaxTimeSpent
                  /\ IF a.userId # u
                     THEN Respond(p, "answerUpdate", "Forbidden")
                     ELSE IF UpdateLocked(a.status)
                     THEN Respond(p, "answerUpdate", "Forbidden")
                     ELSE Continue(p, [op |-> "answerUpdate", pc |-> "question",
                                       userId |-> u, id |-> id, dto |-> d,
                                       answer |-> r, seen |-> a.status,
                                       data |-> Empty])
    /\ UNCHANGED <<exams, questions, purchases, attempts, answers,
                   nextAttemptId, nextAnswerId, now>>

AnswerUpdateFindQuestion(p) ==
    /\ req[p].op = "answerUpdate" /\ req[p].pc = "question"
    /\ LET qid == req[p].answer.questionId
       IN IF qid \notin DOMAIN questions
          THEN Respond(p, "answerUpdate", "NotFound")
          ELSE IF OptionInvalid(questions[qid], req[p].dto)
          THEN Respond(p, "answerUpdate", "BadRequest")
          ELSE Continue(p, [req[p] EXCEPT
                  !.pc = "write",
                  !.data = AnswerUpdateData(req[p].answer, questions[qid],
                                            req[p].dto)])
    /\ UNCHANGED <<exams, questions, purchases, attempts, answers,
                   nextAttemptId, nextAnswerId, now>>

AnswerUpdateWrite(p) ==
    /\ req[p].op = "answerUpdate" /\ req[p].pc = "write"
    /\ LET found == AnswerById(req[p].id)
       IN IF found = {}
          THEN /\ answers' = answers
               /\ Respond(p, "answerUpdate", "NotFound")
          ELSE LET r == CHOOSE x \in found : TRUE
               IN /\ answers' = (answers \ {r}) \cup {Merge(r, req[p].data)}
                  /\ Respond(p, "answerUpdate", "OK")
    /\ UNCHANGED <<exams, questions, purchases, attempts,
                   nextAttemptId, nextAnswerId, now>>

----------------------------------------------------------------------------
(* AnswerService.evaluate: a teacher marks one answer *)

EvaluateDtos ==
    {[marks |-> 700, feedback |-> Some("good")],
     [marks |-> 0, feedback |-> None]}

(* the ownership check of evaluate and bulkEvaluate *)
OwnsExam_anyTeacher(exam, teacherId) == TRUE

OwnsExam(exam, teacherId) == exam.teacherId = teacherId

(* data of prisma.answer.update in evaluate and in bulkEvaluate *)
EvaluateData(marks, feedback, teacherId, time) ==
    [marks |-> Some(marks), evaluatedBy |-> Some(teacherId),
     evaluatedAt |-> Some(time)]
    @@ Field("feedback", feedback)

AnswerEvaluateFind(p, u, id, d) ==
    /\ req[p] = Idle
    /\ LET found == AnswerById(id)
       IN IF found = {}
          THEN Respond(p, "answerEvaluate", "NotFound")
          ELSE LET r == CHOOSE x \in found : TRUE
                   a == CHOOSE x \in attempts : x.id = r.attemptId
               IN IF ~OwnsExam(exams[a.examId], u)
                  THEN Respond(p, "answerEvaluate", "Forbidden")
                  ELSE Continue(p, [op |-> "answerEvaluate", pc |-> "write",
                                    userId |-> u, id |-> id, dto |-> d])
    /\ UNCHANGED <<exams, questions, purchases, attempts, answers,
                   nextAttemptId, nextAnswerId, now>>

AnswerEvaluateWrite(p) ==
    /\ req[p].op = "answerEvaluate" /\ req[p].pc = "write"
    /\ LET found == AnswerById(req[p].id)
       IN IF found = {}
          THEN /\ answers' = answers
               /\ Respond(p, "answerEvaluate", "NotFound")
          ELSE LET r == CHOOSE x \in found : TRUE
               IN /\ answers' = (answers \ {r}) \cup
                        {Merge(r, EvaluateData(req[p].dto.marks,
                                               req[p].dto.feedback,
                                               req[p].userId, now))}
                  /\ Respond(p, "answerEvaluate", "OK")
    /\ UNCHANGED <<exams, questions, purchases, attempts,
                   nextAttemptId, nextAnswerId, now>>

----------------------------------------------------------------------------
(* AnswerService.bulkEvaluate: a teacher marks the answers of an attempt in
   one transaction.  The transaction is one step: it commits all its writes,
   or it fails partway and the database rolls its writes back. *)

Evaluation(questionId, marks, feedback) ==
    [questionId |-> questionId, marks |-> marks, feedback |-> feedback]

(* q3 has no answer on the attempt; the last batch marks q2 twice *)
BulkEvaluations ==
    {<<Evaluation("q1", 100, Some("ok")), Evaluation("q2", 600, None)>>,
     <<Evaluation("q2", 400, Some("fair")), Evaluation("q3", 900, Some("x"))>>,
     <<Evaluation("q2", 100, Some("low")), Evaluation("q2", 300, Some("re"))>>,
     <<>>}

(* one pass of the loop: the answer found by (attemptId, questionId), if any,
   is updated *)
ApplyEvaluation(rows, attemptId, teacherId, ev, time) ==
    {IF r.attemptId = attemptId /\ r.questionId = ev.questionId
     THEN Merge(r, EvaluateData(ev.marks, ev.feedback, teacherId, time))
     ELSE r : r \in rows}

RECURSIVE ApplyEvaluations(_, _, _, _, _)
ApplyEvaluations(rows, attemptId, teacherId, evs, time) ==
    IF evs = <<>> THEN rows
    ELSE ApplyEvaluations(
             ApplyEvaluation(rows, attemptId, teacherId, Head(evs), time),
             attemptId, teacherId, Tail(evs), time)

RECURSIVE BulkTotalMarks_countsSkipped(_, _, _)
BulkTotalMarks_countsSkipped(rows, attemptId, evs) ==
    IF evs = <<>> THEN 0
    ELSE Head(evs).marks + BulkTotalMarks_countsSkipped(rows, attemptId, Tail(evs))

(* totalMarks: the marks of the entries whose answer was found *)
RECURSIVE BulkTotalMarks(_, _, _)
BulkTotalMarks(rows, attemptId, evs) ==
    IF evs = <<>> THEN 0
    ELSE (IF \E r \in rows : /\ r.attemptId = attemptId
                             /\ r.questionId = Head(evs).questionId
          THEN Head(evs).marks ELSE 0)
         + BulkTotalMarks(rows, attemptId, Tail(evs))

BulkAttemptData(totalMarks, teacherId) ==
    [status |-> "EVALUATED", score |-> Some(totalMarks),
     evaluatedBy |-> Some(teacherId)]

(* what the database holds after a failed transaction: before is the rows
   when the transaction began, partial the rows with its writes so far *)
Rollback_keepsPartial(before, partial) == partial

Rollback(before, partial) == before

BulkEvaluateFind(p, u, attemptId, evs) ==
    /\ req[p] = Idle
    /\ LET found == AttemptById(attemptId)
       IN IF found = {}
          THEN Respond(p, "bulkEvaluate", "NotFound")
          ELSE LET a == CHOOSE x \in found : TRUE
               IN IF ~OwnsExam(exams[a.examId], u)
                  THEN Respond(p, "bulkEvaluate", "Forbidden")
                  ELSE Continue(p, [op |-> "bulkEvaluate",
                                    pc |-> "transaction", userId |-> u,
                                    id |-> attemptId, evaluations |-> evs])
    /\ UNCHANGED <<exams, questions, purchases, attempts, answers,
                   nextAttemptId, nextAnswerId, now>>

BulkEvaluateCommit(p) ==
    /\ req[p].op = "bulkEvaluate" /\ req[p].pc = "transaction"
    /\ AttemptById(req[p].id) # {}
    /\ LET evs == req[p].evaluations
           total == BulkTotalMarks(answers, req[p].id, evs)
       IN /\ answers' = ApplyEvaluations(answers, req[p].id, req[p].userId,
                                         evs, now)
          /\ attempts' = {IF a.id = req[p].id
                          THEN Merge(a, BulkAttemptData(total, req[p].userId))
                          ELSE a : a \in attempts}
    /\ Respond(p, "bulkEvaluate", "OK")
    /\ UNCHANGED <<exams, questions, purchases,
                   nextAttemptId, nextAnswerId, now>>

(* a write of the transaction fails after k entries were processed (k is
   the whole batch when it is the attempt write that fails) *)
BulkEvaluateAbort(p) ==
    /\ req[p].op = "bulkEvaluate" /\ req[p].pc = "transaction"
    /\ \E k \in 0..Len(req[p].evaluations) :
          answers' = Rollback(answers,
                        ApplyEvaluations(answers, req[p].id, req[p].userId,
                                         SubSeq(req[p].evaluations, 1, k),
                                         now))
    /\ attempts' = attempts
    /\ Respond(p, "bulkEvaluate", "InternalError")
    /\ UNCHANGED <<exams, questions, purchases,
                   nextAttemptId, nextAnswerId, now>>

----------------------------------------------------------------------------
(* AttemptService.assignAttemptToEvaluator.  The user table is not written
   by any handler here, so the two user lookups and the attempt lookup are
   taken in one step. *)

(* data of prisma.attempt.update in assignAttemptToEvaluator *)
AssignData_setsStatus(evaluatorId) ==
    [evaluatedBy |-> Some(evaluatorId), evaluationStatus |-> Some("Assigned"),
     status |-> "EVALUATED"]

AssignData(evaluatorId) ==
    [evaluatedBy |-> Some(evaluatorId), evaluationStatus |-> Some("Assigned")]

AttemptAssignFind(p, adminId, attemptId, evaluatorId) ==
    /\ req[p] = Idle
    /\ IF adminId \notin Users \/ Role(adminId) # "ADMIN"
       THEN Respond(p, "attemptAssign", "Forbidden")
       ELSE IF AttemptById(attemptId) = {}
       THEN Respond(p, "attemptAssign", "NotFound")
       ELSE IF evaluatorId \notin Users \/ Role(evaluatorId) # "TEACHER"
       THEN Respond(p, "attemptAssign", "BadRequest")
       ELSE Continue(p, [op |-> "attemptAssign", pc |-> "write",
                         userId |-> adminId, id |-> attemptId,
                         evaluatorId |-> evaluatorId,
                         data |-> AssignData(evaluatorId)])
    /\ UNCHANGED <<exams, questions, purchases, attempts, answers,
                   nextAttemptId, nextAnswerId, now>>

AttemptAssignWrite(p) ==
    /\ req[p].op = "attemptAssign" /\ req[p].pc = "write"
    /\ LET found == AttemptById(req[p].id)
       IN IF found = {}
          THEN /\ attempts' = attempts
               /\ Respond(p, "attemptAssign", "NotFound")
          ELSE LET a == CHOOSE x \in found : TRUE
               IN /\ attempts' = (attempts \ {a}) \cup {Merge(a, req[p].data)}
                  /\ Respond(p, "attemptAssign", "OK")
    /\ UNCHANGED <<exams, questions, purchases, answers,
                   nextAttemptId, nextAnswerId, now>>

----------------------------------------------------------------------------
(* ExamService.update: the owning teacher edits the exam *)

BlankUpdateExamDto ==
    [totalMarks |-> None, negativeMarking |-> None, correctMark |-> None,
     incorrectMark |-> None, isActive |-> None, isFree |-> None]

UpdateExamDtos == {[BlankUpdateExamDto EXCEPT !.totalMarks = Some(800)]}

(* data of prisma.exam.update: an undefined field is not written *)
ExamUpdateData(dto) ==
    (IF IsSet(dto.totalMarks)
     THEN [totalMarks |-> Val(dto.totalMarks)] ELSE Empty)
    @@ (IF IsSet(dto.negativeMarking)
        THEN [negativeMarking |-> Val(dto.negativeMarking)] ELSE Empty)
    @@ Field("correctMark", dto.correctMark)
    @@ Field("incorrectMark", dto.incorrectMark)
    @@ (IF IsSet(dto.isActive) THEN [isActive |-> Val(dto.isActive)] ELSE Empty)
    @@ (IF IsSet(dto.isFree) THEN [isFree |-> Val(dto.isFree)] ELSE Empty)

ExamUpdateFind(p, teacherId, id, dto) ==
    /\ req[p] = Idle
    /\ IF id \notin DOMAIN exams
       THEN Respond(p, "examUpdate", "NotFound")
       ELSE IF exams[id].teacherId # teacherId
       THEN Respond(p, "examUpdate", "Forbidden")
       ELSE Continue(p, [op |-> "examUpdate", pc |-> "write",
                         userId |-> teacherId, id |-> id,
                         data |-> ExamUpdateData(dto)])
    /\ UNCHANGED <<exams, questions, purchases, attempts, answers,
                   nextAttemptId, nextAnswerId, now>>

ExamUpdateWrite(p) ==
    /\ req[p].op = "examUpdate" /\ req[p].pc = "write"
    /\ exams' = [exams EXCEPT ![req[p].id] = Merge(@, req[p].data)]
    /\ Respond(p, "examUpdate", "OK")
    /\ UNCHANGED <<questions, purchases, attempts, answers,
                   nextAttemptId, nextAnswerId, now>>

----------------------------------------------------------------------------
(* QuestionService.create and QuestionService.remove: the owning teacher
   adds a question to an exam, or removes one *)

CreateQuestionDto(examId) ==
    [examId |-> examId, type |-> "MCQ", correctOption |-> Some("a"),
     options |-> {"a", "b"}, marks |-> Some(200), isActive |-> None]

NewQuestion(id, dto) ==
    [id |-> id, examId |-> dto.examId, type |-> dto.type,
     correctOption |-> dto.correctOption, options |-> dto.options,
     marks |-> dto.marks,
     isActive |-> IF IsSet(dto.isActive) THEN Val(dto.isActive) ELSE TRUE]

QuestionCreateFindExam(p, teacherId, id, dto) ==
    /\ req[p] = Idle
    /\ id \notin DOMAIN questions
    /\ IF dto.examId \notin DOMAIN exams
       THEN Respond(p, "questionCreate", "NotFound")
       ELSE IF exams[dto.examId].teacherId # teacherId
       THEN Respond(p, "questionCreate", "Forbidden")
       ELSE Continue(p, [op |-> "questionCreate", pc |-> "insert",
                         userId |-> teacherId, id |-> id, dto |-> dto])
    /\ UNCHANGED <<exams, questions, purchases, attempts, answers,
                   nextAttemptId, nextAnswerId, now>>

QuestionCreateInsert(p) ==
    /\ req[p].op = "questionCreate" /\ req[p].pc = "insert"
    /\ questions' = (req[p].id :> NewQuestion(req[p].id, req[p].dto))
                    @@ questions
    /\ Continue(p, [req[p] EXCEPT !.pc = "count"])
    /\ UNCHANGED <<exams, purchases, attempts, answers,
                   nextAttemptId, nextAnswerId, now>>

QuestionCreateCount(p) ==
    /\ req[p].op = "questionCreate" /\ req[p].pc = "count"
    /\ exams' = [exams EXCEPT ![req[p].dto.examId].totalQuestions = @ + 1]
    /\ Respond(p, "questionCreate", "OK")
    /\ UNCHANGED <<questions, purchases, attempts, answers,
                   nextAttemptId, nextAnswerId, now>>

QuestionRemoveFind(p, teacherId, id) ==
    /\ req[p] = Idle
    /\ IF id \notin DOMAIN questions
       THEN Respond(p, "questionRemove", "NotFound")
       ELSE IF exams[questions[id].examId].teacherId # teacherId
       THEN Respond(p, "questionRemove", "Forbidden")
       ELSE Continue(p, [op |-> "questionRemove", pc |-> "answers",
                         userId |-> teacherId, id |-> id,
                         examId |-> questions[id].examId])
    /\ UNCHANGED <<exams, questions, purchases, attempts, answers,
                   nextAttemptId, nextAnswerId, now>>

(* prisma.answer.count({ questionId }) *)
QuestionRemoveCountAnswers(p) ==
    /\ req[p].op = "questionRemove" /\ req[p].pc = "answers"
    /\ Continue(p, [req[p] EXCEPT
          !.pc = IF \E r \in answers : r.questionId = req[p].id
                 THEN "deactivate" ELSE "delete"])
    /\ UNCHANGED <<exams, questions, purchases, attempts, answers,
                   nextAttemptId, nextAnswerId, now>>

QuestionRemoveDeactivate(p) ==
    /\ req[p].op = "questionRemove" /\ req[p].pc = "deactivate"
    /\ questions' = [questions EXCEPT ![req[p].id].isActive = FALSE]
    /\ Respond(p, "questionRemove", "OK")
    /\ UNCHANGED <<exams, purchases, attempts, answers,
                   nextAttemptId, nextAnswerId, now>>

QuestionRemoveDelete(p) ==
    /\ req[p].op = "questionRemove" /\ req[p].pc = "delete"
    /\ questions' = [q \in DOMAIN questions \ {req[p].id} |-> questions[q]]
    /\ Continue(p, [req[p] EXCEPT !.pc = "count"])
    /\ UNCHANGED <<exams, purchases, attempts, answers,
                   nextAttemptId, nextAnswerId, now>>

QuestionRemoveCount(p) ==
    /\ req[p].op = "questionRemove" /\ req[p].pc = "count"
    /\ exams' = [exams EXCEPT ![req[p].examId].totalQuestions = @ - 1]
    /\ Respond(p, "questionRemove", "OK")
    /\ UNCHANGED <<questions, purchases, attempts, answers,
                   nextAttemptId, nextAnswerId, now>>

----------------------------------------------------------------------------
(* The server clock *)

Tick ==
    /\ now < MaxNow
    /\ now' = now + 1
    /\ UNCHANGED <<exams, questions, purchases, attempts, answers,
                   nextAttemptId, nextAnswerId, req, resp>>

----------------------------------------------------------------------------
(* Spec: the attempt lifecycle, one request at a time *)

Init ==
    /\ exams = InitExams
    /\ questions = InitQuestions
    /\ purchases = InitPurchases
    /\ attempts = {}
    /\ answers = {}
    /\ nextAttemptId = 1
    /\ nextAnswerId = 1
    /\ now = 0
    /\ req = [p \in Procs |-> Idle]
    /\ resp = NoResp

AttemptCreateSteps(p) ==
    \/ AttemptCreateCheckAccess(p)
    \/ AttemptCreateFindExisting(p)
    \/ AttemptCreateInsert(p)

AttemptUpdateSteps(p) ==
    \/ AttemptUpdateReadAnswers(p)
    \/ AttemptUpdateReadQuestions(p)
    \/ AttemptUpdateWrite(p)

Next ==
    \/ \E c \in CreateRequests :
          AttemptCreateFindExam("r1", c[1], CreateAttemptDto(c[2]))
    \/ AttemptCreateSteps("r1")
    \/ \E u \in Students, id \in 1..MaxAttempts, d \in StudentUpdateDtos :
          AttemptUpdateFind("r1", u, id, d)
    \/ \E id \in 1..MaxAttempts, d \in TeacherUpdateDtos :
          AttemptUpdateFind("r1", "t1", id, d)
    \/ AttemptUpdateSteps("r1")

Spec == Init /\ [][Next]_vars

(* SpecTimed: the same with the clock running between the steps *)
NextTimed == Tick \/ Next

SpecTimed == Init /\ [][NextTimed]_vars

----------------------------------------------------------------------------
(* SpecAnswers: the answer ledger of one attempt, one request at a time.
   It starts where s1 has just started exam e1. *)

InitAnswers ==
    /\ exams = InitExams
    /\ questions = InitQuestions
    /\ purchases = InitPurchases
    /\ attempts = {NewAttempt(1, "s1", InitExams["e1"], CreateAttemptDto("e1"))}
    /\ answers = {}
    /\ nextAttemptId = 2
    /\ nextAnswerId = 1
    /\ now = 0
    /\ req = [p \in Procs |-> Idle]
    /\ resp = NoResp

AnswerCreateSteps(p) ==
    \/ AnswerCreateFindQuestion(p)
    \/ AnswerCreateFindExisting(p)
    \/ AnswerCreateWrite(p)

AnswerUpdateSteps(p) ==
    \/ AnswerUpdateFindQuestion(p)
    \/ AnswerUpdateWrite(p)

(* who writes which question: q3 is a question of another exam, s2 does
   not own the attempt *)
AnswerRequests ==
    {<<"s1", q, pl>> : q \in {"q1", "q2"}, pl \in AnswerPayloads}
    \cup {<<"s1", "q3", BlankAnswerDto>>, <<"s2", "q1", BlankAnswerDto>>}

NextAnswers ==
    \/ \E r \in AnswerRequests :
          AnswerCreateFindAttempt("r1", r[1], CreateAnswerDto(1, r[2], r[3]))
    \/ AnswerCreateSteps("r1")
    \/ \E id \in 1..2, pl \in UpdateAnswerPayloads :
          AnswerUpdateFind("r1", "s1", id, pl)
    \/ AnswerUpdateSteps("r1")
    \/ \E s \in {"SUBMITTED", "COMPLETED"} :
          AttemptUpdateFind("r1", "s1", 1,
              [BlankUpdateAttemptDto EXCEPT !.status = Some(s)])
    \/ AttemptUpdateFind("r1", "t1", 1,
          [BlankUpdateAttemptDto EXCEPT !.status = Some("EVALUATED")])
    \/ AttemptUpdateSteps("r1")

SpecAnswers == InitAnswers /\ [][NextAnswers]_vars

----------------------------------------------------------------------------
(* SpecScore: the Scoring Engine at submit.  The exam has MaxMcq MCQ
   questions (1..MaxMcq) and one descriptive question (MaxMcq + 1); s1 has an
   attempt in progress with any set of answers written by answer create, the
   descriptive one possibly already marked by the teacher (evaluate checks no
   status).  The marking scheme of the exam is any of ScoreSchemes. *)

ScoreQuestions ==
    [q \in 1..(MaxMcq + 1) |->
        IF q <= MaxMcq
        THEN [id |-> q, examId |-> "e1", type |-> "MCQ",
              correctOption |-> Some("a"), options |-> {"a", "b"},
              marks |-> IF q = 1 THEN None ELSE Some(100 * q),
              isActive |-> TRUE]
        ELSE [id |-> q, examId |-> "e1", type |-> "DESCRIPTIVE",
              correctOption |-> None, options |-> {}, marks |-> Some(1000),
              isActive |-> TRUE]]

ScoreSchemes ==
    {[InitExams["e1"] EXCEPT !.negativeMarking = n, !.incorrectMark = m] :
        n \in BOOLEAN, m \in {None, Some(-66), Some(-300)}}

(* what the student (and, for marks, the teacher) did with one question *)
McqChoices == {"unanswered", "blank", "a", "b"}
DescriptiveChoices == {"unanswered", "unmarked", "0", "400", "1000"}

ScoreAnswer(exam, q, choice) ==
    LET dto == CreateAnswerDto(1, q,
                 [BlankAnswerDto EXCEPT
                    !.selectedOption =
                        IF choice \in {"a", "b"} THEN Some(choice) ELSE None,
                    !.answerText =
                        IF q > MaxMcq THEN Some("essay") ELSE None,
                    !.timeSpent =
                        IF choice = "blank" THEN Some(30) ELSE None])
        row == NewAnswer(q, dto, WriteTimeMarks(ScoreQuestions[q], exam, dto))
    IN IF choice \in {"0", "400", "1000"}
       THEN [row EXCEPT !.marks = Some(CASE choice = "0" -> 0
                                         [] choice = "400" -> 400
                                         [] choice = "1000" -> 1000),
                        !.evaluatedBy = Some("t1"),
                        !.evaluatedAt = Some(0)]
       ELSE row

InitScore ==
    /\ \E ex \in ScoreSchemes :
         /\ exams = [InitExams EXCEPT !["e1"] = ex]
         /\ \E mc \in [1..MaxMcq -> McqChoices], dc \in DescriptiveChoices :
              answers =
                 {ScoreAnswer(ex, q, mc[q]) :
                     q \in {x \in 1..MaxMcq : mc[x] # "unanswered"}}
                 \cup (IF dc = "unanswered" THEN {}
                       ELSE {ScoreAnswer(ex, MaxMcq + 1, dc)})
    /\ questions = ScoreQuestions
    /\ purchases = InitPurchases
    /\ attempts = {NewAttempt(1, "s1", InitExams["e1"], CreateAttemptDto("e1"))}
    /\ nextAttemptId = 2
    /\ nextAnswerId = MaxMcq + 2
    /\ now = 0
    /\ req = [p \in Procs |-> Idle]
    /\ resp = NoResp

NextScore ==
    \/ AttemptUpdateFind("r1", "s1", 1,
          [BlankUpdateAttemptDto EXCEPT !.status = Some("SUBMITTED")])
    \/ AttemptUpdateSteps("r1")
    \/ AttemptUpdateScoringFails("r1")

SpecScore == InitScore /\ [][NextScore]_vars

----------------------------------------------------------------------------
(* SpecCreateRace: two requests at a time (two browser tabs) on the attempt
   handlers; the steps of the two handlers interleave at their awaits. *)

NextCreateRace ==
    \E p \in Procs :
        \/ \E u \in Students :
              AttemptCreateFindExam(p, u, CreateAttemptDto("e1"))
        \/ AttemptCreateSteps(p)
        \/ \E id \in 1..MaxAttempts :
              AttemptUpdateFind(p, "s1", id,
                  [BlankUpdateAttemptDto EXCEPT !.status = Some("COMPLETED")])
        \/ AttemptUpdateWrite(p)

SpecCreateRace == Init /\ [][NextCreateRace]_vars

(* SpecAnswerRace: two requests at a time on the answer upsert of one
   attempt in progress. *)

RacePayloads ==
    {[BlankAnswerDto EXCEPT !.selectedOption = Some("a")],
     [BlankAnswerDto EXCEPT !.selectedOption = Some("b"),
                            !.timeSpent = Some(30)]}

NextAnswerRace ==
    \E p \in Procs :
        \/ \E q \in {"q1", "q2"}, pl \in RacePayloads :
              AnswerCreateFindAttempt(p, "s1", CreateAnswerDto(1, q, pl))
        \/ AnswerCreateSteps(p)

SpecAnswerRace == InitAnswers /\ [][NextAnswerRace]_vars

----------------------------------------------------------------------------
(* SpecMarks: answer create and submit on the questions of SpecScore, the
   exam e1 having negative marking (correctMark 2, incorrectMark -0.66): the
   marks stored at write time next to what the Scoring Engine counts for the
   same answer. *)

MarkPayloads ==
    {[BlankAnswerDto EXCEPT !.selectedOption = Some("a")],
     [BlankAnswerDto EXCEPT !.selectedOption = Some("b")]}

InitMarks ==
    /\ exams = InitExams
    /\ questions = ScoreQuestions
    /\ purchases = InitPurchases
    /\ attempts = {NewAttempt(1, "s1", InitExams["e1"], CreateAttemptDto("e1"))}
    /\ answers = {}
    /\ nextAttemptId = 2
    /\ nextAnswerId = 1
    /\ now = 0
    /\ req = [p \in Procs |-> Idle]
    /\ resp = NoResp

NextMarks ==
    \/ \E q \in 1..(MaxMcq + 1), pl \in MarkPayloads :
          AnswerCreateFindAttempt("r1", "s1", CreateAnswerDto(1, q, pl))
    \/ AnswerCreateSteps("r1")
    \/ AttemptUpdateFind("r1", "s1", 1,
          [BlankUpdateAttemptDto EXCEPT !.status = Some("SUBMITTED")])
    \/ AttemptUpdateSteps("r1")

SpecMarks == InitMarks /\ [][NextMarks]_vars

----------------------------------------------------------------------------
(* SpecGrading: the evaluation workflow, one request at a time.  s1 has an
   attempt in progress on e1 (teacher t1) with an answer to q1 and to q2;
   s1 may submit; teachers t1 and t2 mark answers, bulk evaluate and update
   the attempt; the admin assigns. *)

InitGradingAnswers ==
    {NewAnswer(1, CreateAnswerDto(1, "q1",
                     [BlankAnswerDto EXCEPT !.selectedOption = Some("b")]),
               InitExams["e1"].incorrectMark),
     NewAnswer(2, CreateAnswerDto(1, "q2",
                     [BlankAnswerDto EXCEPT !.answerText = Some("essay")]),
               None)}

InitGrading ==
    /\ exams = InitExams
    /\ questions = InitQuestions
    /\ purchases = InitPurchases
    /\ attempts = {NewAttempt(1, "s1", InitExams["e1"], CreateAttemptDto("e1"))}
    /\ answers = InitGradingAnswers
    /\ nextAttemptId = 2
    /\ nextAnswerId = 3
    /\ now = 0
    /\ req = [p \in Procs |-> Idle]
    /\ resp = NoResp

GradingTeacherDtos ==
    {[BlankUpdateAttemptDto EXCEPT !.status = Some("EVALUATED"),
                                   !.score = Some(700)]}

NextGrading ==
    \/ AttemptUpdateFind("r1", "s1", 1,
          [BlankUpdateAttemptDto EXCEPT !.status = Some("SUBMITTED")])
    \/ \E t \in Teachers, d \in GradingTeacherDtos :
          AttemptUpdateFind("r1", t, 1, d)
    \/ AttemptUpdateSteps("r1")
    \/ \E t \in Teachers, id \in 2..3, d \in EvaluateDtos :
          AnswerEvaluateFind("r1", t, id, d)
    \/ AnswerEvaluateWrite("r1")
    \/ \E t \in Teachers, id \in 1..MaxAttempts, evs \in BulkEvaluations :
          BulkEvaluateFind("r1", t, id, evs)
    \/ BulkEvaluateCommit("r1")
    \/ BulkEvaluateAbort("r1")
    \/ \E u \in {"adm", "t1"}, ev \in {"t2", "s1"} :
          AttemptAssignFind("r1", u, 1, ev)
    \/ AttemptAssignWrite("r1")

SpecGrading == InitGrading /\ [][NextGrading]_vars

(* SpecSnapshot: the same start, with s2 starting e1 and t1 editing the
   totalMarks of e1 between the other operations. *)

NextSnapshot ==
    \/ AttemptCreateFindExam("r1", "s2", CreateAttemptDto("e1"))
    \/ AttemptCreateSteps("r1")
    \/ \E t \in Teachers, d \in UpdateExamDtos :
          ExamUpdateFind("r1", t, "e1", d)
    \/ ExamUpdateWrite("r1")
    \/ AttemptUpdateFind("r1", "s1", 1,
          [BlankUpdateAttemptDto EXCEPT !.status = Some("SUBMITTED")])
    \/ \E d \in GradingTeacherDtos : AttemptUpdateFind("r1", "t1", 1, d)
    \/ AttemptUpdateSteps("r1")
    \/ AnswerEvaluateFind("r1", "t1", 2, [marks |-> 700, feedback |-> None])
    \/ AnswerEvaluateWrite("r1")
    \/ \E id \in 1..MaxAttempts :
          BulkEvaluateFind("r1", "t1", id,
              <<Evaluation("q2", 400, Some("fair"))>>)
    \/ BulkEvaluateCommit("r1")
    \/ BulkEvaluateAbort("r1")
    \/ AttemptAssignFind("r1", "adm", 1, "t2")
    \/ AttemptAssignWrite("r1")

SpecSnapshot == InitGrading /\ [][NextSnapshot]_vars

----------------------------------------------------------------------------
(* SpecEntitlement: attempt create on the free exam e1 and the paid exam e2
   (of test series ts1) while the clock runs, with any set of purchases of
   PurchaseOptions in the purchase table. *)

Purchase(userId, status, type, examId, testSeriesId, validTill) ==
    [userId |-> userId, status |-> status, type |-> type, examId |-> examId,
     testSeriesId |-> testSeriesId, validTill |-> validTill]

(* the first lapses when the clock reaches MaxNow, the third is not paid, the
   last is for another test series *)
PurchaseOptions ==
    {Purchase("s1", "COMPLETED", "INDIVIDUAL_EXAM", Some("e2"), None,
              MaxNow - 1),
     Purchase("s1", "COMPLETED", "TEST_SERIES", None, Some("ts1"), MaxNow),
     Purchase("s2", "PENDING", "INDIVIDUAL_EXAM", Some("e2"), None, MaxNow),
     Purchase("s2", "COMPLETED", "TEST_SERIES", None, Some("ts2"), MaxNow)}

InitEntitlement ==
    /\ exams = InitExams
    /\ questions = InitQuestions
    /\ purchases \in SUBSET PurchaseOptions
    /\ attempts = {}
    /\ answers = {}
    /\ nextAttemptId = 1
    /\ nextAnswerId = 1
    /\ now = 0
    /\ req = [p \in Procs |-> Idle]
    /\ resp = NoResp

NextEntitlement ==
    \/ Tick
    \/ \E u \in Students, e \in ExamIds :
          AttemptCreateFindExam("r1", u, CreateAttemptDto(e))
    \/ AttemptCreateSteps("r1")

SpecEntitlement == InitEntitlement /\ [][NextEntitlement]_vars

----------------------------------------------------------------------------
(* Claims on the attempt lifecycle, checked under Spec (C2) and under
   SpecTimed (C3, C4) *)

HasInProgress(userId, examId) ==
    \E a \in attempts :
        a.userId = userId /\ a.examId = examId /\ a.status = "IN_PROGRESS"

(* the create handler in slot p takes its step "look for an attempt in
   progress" while the user has one for the exam *)
CreateLookupFindsOne(p) ==
    /\ req[p].op = "attemptCreate" /\ req[p].pc = "existing"
    /\ req'[p] # req[p]
    /\ HasInProgress(req[p].userId, req[p].exam.id)

(* C2, as claimed: attempt create while an attempt of the same user and exam
   is IN_PROGRESS fails with a Conflict error and creates no new attempt. *)
C2_SecondCreateConflict ==
    [][\A p \in Procs :
          CreateLookupFindsOne(p) =>
              /\ resp' = [op |-> "attemptCreate", result |-> "Conflict",
                          slot |-> p]
              /\ attempts' = attempts]_vars

(* C2, amended: attempt create whose lookup finds an attempt of the same user
   and exam IN_PROGRESS fails with a BadRequest error, the handler ends there
   and no attempt is created. *)
C2_SecondCreateBadRequest ==
    [][\A p \in Procs :
          CreateLookupFindsOne(p) =>
              /\ resp' = [op |-> "attemptCreate", result |-> "BadRequest",
                          slot |-> p]
              /\ req'[p] = Idle
              /\ attempts' = attempts
              /\ nextAttemptId' = nextAttemptId]_vars

C2_Witness ==
    /\ resp.op = "attemptCreate" /\ resp.result = "BadRequest"
    /\ \E a \in attempts : a.status = "IN_PROGRESS"
    /\ Cardinality(attempts) = 1

(* the write of a student update asking for SUBMITTED, in slot p *)
StudentSubmitWrite(p) ==
    /\ req[p].op = "attemptUpdate" /\ req[p].pc = "write"
    /\ ~req[p].isTeacher
    /\ req[p].dto.status = Some("SUBMITTED")
    /\ req'[p] # req[p]

(* C3: a student submit succeeds only on the caller's own attempt and only
   from IN_PROGRESS; on an attempt already SUBMITTED, EVALUATED or COMPLETED
   it is rejected and status, submitTime and score stay as they were. *)
C3_SubmitOnlyFromInProgress ==
    [][\A p \in Procs :
          StudentSubmitWrite(p) =>
              \A a \in AttemptById(req[p].id) :
                  /\ a.userId = req[p].userId
                  /\ a.status # "IN_PROGRESS" =>
                        /\ resp'.result # "OK"
                        /\ \A b \in attempts' :
                              b.id = a.id =>
                                  /\ b.status = a.status
                                  /\ b.submitTime = a.submitTime
                                  /\ b.score = a.score]_vars

AllowedTransitions ==
    {<<"IN_PROGRESS", "SUBMITTED">>, <<"SUBMITTED", "EVALUATED">>,
     <<"IN_PROGRESS", "COMPLETED">>}

(* C4: every status change of an attempt is IN_PROGRESS to SUBMITTED,
   SUBMITTED to EVALUATED or IN_PROGRESS to COMPLETED; EVALUATED and COMPLETED
   are final. *)
C4_StatusTransitions ==
    [][\A a \in attempts : \A b \in attempts' :
          (a.id = b.id /\ a.status # b.status) =>
              <<a.status, b.status>> \in AllowedTransitions]_vars

----------------------------------------------------------------------------
(* Claims on the answer ledger, checked under SpecAnswers *)

LockedForStudent(a, u, statuses) == a.userId = u /\ a.status \in statuses

(* slot p starts an answer create for a question of the owner's attempt
   whose status is one of statuses *)
CreateCallOnStatus(p, r, statuses) ==
    /\ req[p] = Idle
    /\ \E a \in AttemptById(1) : LockedForStudent(a, r[1], statuses)
    /\ AnswerCreateFindAttempt(p, r[1], CreateAnswerDto(1, r[2], r[3]))

Rejected(p, o) ==
    /\ req'[p] = Idle
    /\ resp'.op = o /\ resp'.slot = p
    /\ resp'.result \in {"BadRequest", "Forbidden"}
    /\ answers' = answers
    /\ nextAnswerId' = nextAnswerId

(* C5: once the attempt is SUBMITTED or EVALUATED, every answer create by the
   student is rejected with an error and the answer rows are unchanged. *)
C5_CreateRejectedOnceSubmitted ==
    [][\A p \in Procs : \A r \in AnswerRequests :
          CreateCallOnStatus(p, r, {"SUBMITTED", "EVALUATED"}) =>
              Rejected(p, "answerCreate")]_vars

C5_Witness ==
    /\ resp.op = "answerCreate" /\ resp.result = "BadRequest"
    /\ \E a \in attempts : a.status \in {"SUBMITTED", "EVALUATED"}
    /\ answers # {}

(* C6: in every attempt status other than IN_PROGRESS (SUBMITTED, EVALUATED,
   COMPLETED) answer create and answer update both reject the student's
   write: a write handler only ever proceeds on an attempt it read as
   IN_PROGRESS, on either path. *)
C6_BothPathsOnlyInProgress ==
    \A p \in Procs :
        req[p].op \in {"answerCreate", "answerUpdate"} =>
            req[p].seen = "IN_PROGRESS"

(* the write of an answer create in slot p succeeds *)
UpsertWrites(p) ==
    /\ req[p].op = "answerCreate" /\ req[p].pc = "write"
    /\ req'[p] = Idle
    /\ resp'.result = "OK"

RowsAfter(d) ==
    {r \in answers' : r.attemptId = d.attemptId /\ r.questionId = d.questionId}

(* the value a field had before the write, null when there was no row *)
Previous(d, f) ==
    LET rows == AnswersOf(d.attemptId, d.questionId)
    IN IF rows = {} THEN None ELSE (CHOOSE r \in rows : TRUE)[f]

(* C7, as claimed: after an answer create there is exactly one row for the
   (attempt, question) pair and its selectedOption, answerText and timeSpent
   are those of that call, also for a field the call omits. *)
C7_LatestCallWinsEveryField ==
    [][\A p \in Procs :
          UpsertWrites(p) =>
              /\ Cardinality(RowsAfter(req[p].dto)) = 1
              /\ \A r \in RowsAfter(req[p].dto) :
                    \A f \in {"selectedOption", "answerText", "timeSpent"} :
                        r[f] = req[p].dto[f]]_vars

(* C7, amended: after an answer create there is exactly one row for the pair;
   each of selectedOption, answerText and timeSpent that the call supplies has
   the call's value, and each one it omits keeps the value stored before
   (null on a fresh row). *)
C7_LatestSuppliedFieldWins ==
    [][\A p \in Procs :
          UpsertWrites(p) =>
              /\ Cardinality(RowsAfter(req[p].dto)) = 1
              /\ \A r \in RowsAfter(req[p].dto) :
                    \A f \in {"selectedOption", "answerText", "timeSpent"} :
                        r[f] = IF IsSet(req[p].dto[f]) THEN req[p].dto[f]
                               ELSE Previous(req[p].dto, f)]_vars

C7_Witness ==
    /\ resp.op = "answerCreate" /\ resp.result = "OK"
    /\ \E r \in answers :
          /\ r.selectedOption = Some("b")
          /\ r.answerText = Some("essay")
          /\ r.timeSpent = Some(30)

----------------------------------------------------------------------------
(* Claims on the Scoring Engine, checked under SpecScore *)

ScoredAtSubmit(a) == a.status = "SUBMITTED" /\ IsSet(a.score)

(* C9: whatever mix of correct and incorrect MCQ answers, with negative
   marking, the score written at submit is at least 0. *)
C9_ScoreNonNegative ==
    \A a \in attempts : ScoredAtSubmit(a) => Val(a.score) >= 0

(* every MCQ answered wrongly under negative marking: the sum is below 0 *)
C9_Witness ==
    \E a \in attempts :
        /\ ScoredAtSubmit(a)
        /\ exams[a.examId].negativeMarking
        /\ exams[a.examId].incorrectMark = Some(-300)
        /\ a.correctAnswers = Some(0)
        /\ a.incorrectAnswers = Some(MaxMcq)
        /\ a.score = Some(0)

(* the answers of attempt a that the Scoring Engine counts *)
CountedAnswers(a) ==
    {r \in answers :
        /\ r.attemptId = a.id
        /\ \/ questions[r.questionId].type = "MCQ" /\ IsSet(r.selectedOption)
           \/ questions[r.questionId].type = "DESCRIPTIVE" /\ IsSet(r.marks)}

(* C10: the accuracy written at submit lies in 0..100, equals
   correctAnswers / (correctAnswers + incorrectAnswers) * 100 when that
   denominator is not 0, and is 0 when no answer is counted. *)
C10_AccuracyBounds ==
    \A a \in attempts :
        ScoredAtSubmit(a) =>
            LET acc == Val(a.accuracy)
                c == Val(a.correctAnswers)
                i == Val(a.incorrectAnswers)
            IN /\ acc.den > 0
               /\ 0 <= acc.num /\ acc.num <= 100 * acc.den
               /\ c + i # 0 => acc.num * (c + i) = c * 100 * acc.den
               /\ CountedAnswers(a) = {} => acc.num = 0

C10_Witness ==
    \E a \in attempts :
        /\ ScoredAtSubmit(a)
        /\ a.correctAnswers = Some(2)
        /\ a.incorrectAnswers = Some(1)
        /\ Val(a.accuracy).num * 3 = 200 * Val(a.accuracy).den

----------------------------------------------------------------------------
(* Claims on concurrent requests *)

(* C1: in every reachable state, whatever the interleaving of concurrent
   attempt creates of one user for one exam, at most one attempt of a
   (userId, examId) pair is IN_PROGRESS.  Checked under SpecCreateRace. *)
C1_OneInProgressPerUserExam ==
    \A a \in attempts : \A b \in attempts :
        (/\ a.userId = b.userId /\ a.examId = b.examId
         /\ a.status = "IN_PROGRESS" /\ b.status = "IN_PROGRESS")
            => a.id = b.id

(* C8: whatever the interleaving of concurrent answer creates for one
   (attemptId, questionId), there is never more than one answer row for the
   pair.  Checked under SpecAnswerRace. *)
C8_OneAnswerPerQuestion ==
    \A r \in answers : \A t \in answers :
        (r.attemptId = t.attemptId /\ r.questionId = t.questionId)
            => r.id = t.id

(* both requests found no row, the second insert was refused by the key *)
C8_Witness ==
    /\ resp.op = "answerCreate" /\ resp.result = "InternalError"
    /\ Cardinality(answers) = 1

----------------------------------------------------------------------------
(* Claims on the marks of an answer and on a failing Scoring Engine *)

AttemptOf(r) == CHOOSE a \in attempts : a.id = r.attemptId

(* C11: for every MCQ answer with a selected option on an exam with negative
   marking, the marks stored on the answer by answer create equal what the
   Scoring Engine adds to the score for that answer, for a correct and for an
   incorrect selection.  Checked under SpecMarks. *)
C11_WriteTimeMarksMatchEngine ==
    \A r \in answers :
        LET q == questions[r.questionId]
            ex == exams[AttemptOf(r).examId]
        IN (q.type = "MCQ" /\ TruthyStr(r.selectedOption) /\ ex.negativeMarking)
              => r.marks = Some(AnswerScore(ex, [answer |-> r, question |-> q]))

ScoreFields ==
    {"score", "percentage", "correctAnswers", "incorrectAnswers",
     "unattempted", "accuracy"}

(* the write of a student submit whose scoring returned no scoreData *)
SubmitWriteAfterScoringFailure(p) ==
    /\ req[p].op = "attemptUpdate" /\ req[p].pc = "write"
    /\ ~req[p].isTeacher
    /\ req[p].dto.status = Some("SUBMITTED")
    /\ ~IsSet(req[p].scoreData)
    /\ req'[p] # req[p]

(* C12: when scoring fails during a student submit, the submit still answers
   OK, the attempt becomes SUBMITTED with submitTime set, and score,
   percentage, correctAnswers, incorrectAnswers, unattempted and accuracy
   keep the values they had.  Checked under SpecScore. *)
C12_SubmitSurvivesScoringFailure ==
    [][\A p \in Procs :
          SubmitWriteAfterScoringFailure(p) =>
              /\ resp' = [op |-> "attemptUpdate", result |-> "OK", slot |-> p]
              /\ \A a \in AttemptById(req[p].id) :
                    \E b \in attempts' :
                        /\ b.id = a.id
                        /\ b.status = "SUBMITTED"
                        /\ IsSet(b.submitTime)
                        /\ \A f \in ScoreFields : b[f] = a[f]]_vars

C12_Witness ==
    /\ resp.op = "attemptUpdate" /\ resp.result = "OK"
    /\ \E a \in attempts :
          /\ a.status = "SUBMITTED"
          /\ IsSet(a.submitTime)
          /\ \A f \in ScoreFields : a[f] = None
    /\ answers # {}

----------------------------------------------------------------------------
(* Claims on the evaluation workflow, checked under SpecGrading (C14 under
   SpecSnapshot) *)

(* C13: in every reachable state in which an attempt has a score (maxScore is
   always set), percentage = score / maxScore * 100, whichever operation
   wrote the score last. *)
C13_PercentageFollowsScore ==
    \A a \in attempts :
        IsSet(a.score) =>
            /\ IsSet(a.percentage)
            /\ Val(a.percentage).num * a.maxScore =
                  Val(a.score) * 100 * Val(a.percentage).den

(* C14: a new attempt's maxScore is the exam's totalMarks at the moment the
   attempt is created, and no step of any operation (attempt update by the
   student or a teacher, assign, evaluate, bulkEvaluate, an edit of the
   exam's totalMarks) changes the maxScore of an existing attempt. *)
C14_MaxScoreSnapshot ==
    [][/\ \A b \in attempts' :
             (\A a \in attempts : a.id # b.id) =>
                 b.maxScore = exams[b.examId].totalMarks
       /\ \A a \in attempts : \A b \in attempts' :
             a.id = b.id => b.maxScore = a.maxScore]_vars

(* the exam was edited after s1 started and before s2 did; s1's attempt was
   graded since *)
C14_Witness ==
    /\ exams["e1"].totalMarks = 800
    /\ \E a \in attempts :
          a.id = 1 /\ a.maxScore = 1000 /\ a.status = "EVALUATED"
    /\ \E a \in attempts : a.id = 2 /\ a.maxScore = 800

(* the transaction of a bulkEvaluate in slot p commits *)
BulkCommits(p) ==
    /\ req[p].op = "bulkEvaluate" /\ req[p].pc = "transaction"
    /\ req'[p] = Idle
    /\ resp'.result = "OK"

(* the entries of the batch that match answer r *)
Matching(evs, attemptId, r) ==
    {i \in 1..Len(evs) :
        r.attemptId = attemptId /\ evs[i].questionId = r.questionId}

Last(I) == CHOOSE i \in I : \A j \in I : j <= i

RECURSIVE SumMarks(_, _)
SumMarks(evs, I) ==
    IF I = {} THEN 0
    ELSE LET i == CHOOSE x \in I : TRUE
         IN evs[i].marks + SumMarks(evs, I \ {i})

(* C15: a successful bulkEvaluate writes marks, feedback (when the entry
   carries one) and evaluatedBy on each existing answer matched by
   (attemptId, questionId), leaves every other answer as it was, creates no
   row for an entry without an answer, and sets the attempt's status to
   EVALUATED, evaluatedBy to the teacher and score to the total of the marks
   of the entries that matched an answer, whatever the score was before. *)
C15_BulkEvaluateWrites ==
    [][\A p \in Procs :
          BulkCommits(p) =>
              LET evs == req[p].evaluations
                  id == req[p].id
                  t == req[p].userId
                  matched == {i \in 1..Len(evs) :
                                 \E r \in answers : i \in Matching(evs, id, r)}
              IN /\ {r.id : r \in answers'} = {r.id : r \in answers}
                 /\ Cardinality(answers') = Cardinality(answers)
                 /\ \A r \in answers : \E r2 \in answers' :
                       /\ r2.id = r.id
                       /\ LET M == Matching(evs, id, r)
                              F == {i \in M : IsSet(evs[i].feedback)}
                          IN IF M = {} THEN r2 = r
                             ELSE /\ r2.marks = Some(evs[Last(M)].marks)
                                  /\ r2.evaluatedBy = Some(t)
                                  /\ r2.feedback =
                                        IF F = {} THEN r.feedback
                                        ELSE evs[Last(F)].feedback
                 /\ \A a \in AttemptById(id) : \E b \in attempts' :
                       /\ b.id = a.id
                       /\ b.status = "EVALUATED"
                       /\ b.evaluatedBy = Some(t)
                       /\ b.score = Some(SumMarks(evs, matched))]_vars

(* the batch marked q2 with 400 and q3, which has no answer, with 900, on an
   attempt that already had a score and a percentage *)
C15_Witness ==
    /\ resp.op = "bulkEvaluate" /\ resp.result = "OK"
    /\ \E a \in attempts :
          /\ a.status = "EVALUATED" /\ a.score = Some(400)
          /\ IsSet(a.percentage)
    /\ \E r \in answers :
          r.questionId = "q2" /\ r.marks = Some(400) /\ r.feedback = Some("fair")
    /\ Cardinality(answers) = 2

(* the transaction of a bulkEvaluate in slot p fails *)
BulkFails(p) ==
    /\ req[p].op = "bulkEvaluate" /\ req[p].pc = "transaction"
    /\ req'[p] = Idle
    /\ resp'.result # "OK"

(* C16: if bulkEvaluate fails partway through its batch, no answer carries
   marks, feedback or evaluatedBy written by the call, and the attempt's
   status, score and evaluatedBy are as before the call. *)
C16_BulkEvaluateAllOrNothing ==
    [][\A p \in Procs :
          BulkFails(p) =>
              /\ answers' = answers
              /\ \A a \in attempts : \E b \in attempts' :
                    /\ b.id = a.id
                    /\ b.status = a.status
                    /\ b.score = a.score
                    /\ b.evaluatedBy = a.evaluatedBy]_vars

C16_Witness ==
    /\ resp.op = "bulkEvaluate" /\ resp.result = "InternalError"
    /\ \E a \in attempts : a.status = "SUBMITTED" /\ a.evaluatedBy = None
    /\ \A r \in answers : r.evaluatedBy = None /\ r.feedback = None

RejectedForbidden(p, o) ==
    /\ req'[p] = Idle
    /\ resp' = [op |-> o, result |-> "Forbidden", slot |-> p]
    /\ answers' = answers
    /\ attempts' = attempts

OwnerOfAnswer(id) ==
    {exams[a.examId].teacherId :
        a \in {x \in attempts : \E r \in AnswerById(id) : r.attemptId = x.id}}

OwnerOfAttempt(id) == {exams[a.examId].teacherId : a \in AttemptById(id)}

(* C17: an evaluate or bulkEvaluate call by a teacher who is not the teacher
   of the parent exam fails with Forbidden and changes no answer and no
   attempt. *)
C17_NonOwnerEvaluateForbidden ==
    [][\A p \in Procs, t \in Teachers :
          /\ \A id \in 1..3, d \in EvaluateDtos :
                (/\ req[p] = Idle
                 /\ OwnerOfAnswer(id) # {} /\ t \notin OwnerOfAnswer(id)
                 /\ AnswerEvaluateFind(p, t, id, d))
                    => RejectedForbidden(p, "answerEvaluate")
          /\ \A id \in 1..MaxAttempts, evs \in BulkEvaluations :
                (/\ req[p] = Idle
                 /\ OwnerOfAttempt(id) # {} /\ t \notin OwnerOfAttempt(id)
                 /\ BulkEvaluateFind(p, t, id, evs))
                    => RejectedForbidden(p, "bulkEvaluate")]_vars

C17_Witness ==
    /\ resp.op \in {"answerEvaluate", "bulkEvaluate"}
    /\ resp.result = "Forbidden"
    /\ \E r \in answers : r.evaluatedBy = Some("t1")

(* a handler called by teacher t takes a step in slot p *)
TeacherStep(p, t) ==
    /\ req[p].op \in {"attemptUpdate", "answerEvaluate", "bulkEvaluate"}
    /\ req[p].userId = t
    /\ req'[p] # req[p]

(* C18: on every grading path (evaluate, bulkEvaluate, the teacher branch of
   attempt update) no step of a call by a teacher who does not own the exam
   changes the attempt's score, percentage, status or evaluatedBy. *)
C18_NonOwnerNeverGrades ==
    [][\A p \in Procs, t \in Teachers :
          TeacherStep(p, t) =>
              \A a \in attempts :
                  exams[a.examId].teacherId # t =>
                      \E b \in attempts' :
                          /\ b.id = a.id
                          /\ b.score = a.score
                          /\ b.percentage = a.percentage
                          /\ b.status = a.status
                          /\ b.evaluatedBy = a.evaluatedBy]_vars

(* C19: once bulkEvaluate has set the attempt to EVALUATED (it is the call
   that finished last), no step of a later evaluate or bulkEvaluate changes
   the marks or the feedback of an answer of that attempt. *)
C19_BulkEvaluateIsTerminal ==
    [][(resp.op = "bulkEvaluate" /\ resp.result = "OK") =>
          \A a \in attempts :
              a.status = "EVALUATED" =>
                  \A r \in answers :
                      r.attemptId = a.id =>
                          \E r2 \in answers' :
                              /\ r2.id = r.id
                              /\ r2.marks = r.marks
                              /\ r2.feedback = r.feedback]_vars

----------------------------------------------------------------------------
(* Claims on the Entitlement Checker, checked under SpecEntitlement *)

(* the entitlement rule: the exam is free, or the user has a COMPLETED
   purchase, valid at time, of the exam or of its test series *)
Entitled(userId, exam, time) ==
    \/ exam.isFree
    \/ \E pu \in purchases :
          /\ pu.userId = userId
          /\ pu.status = "COMPLETED"
          /\ pu.validTill >= time
          /\ \/ pu.type = "INDIVIDUAL_EXAM" /\ pu.examId = Some(exam.id)
             \/ /\ pu.type = "TEST_SERIES"
                /\ IsSet(exam.testSeriesId)
                /\ pu.testSeriesId = exam.testSeriesId

(* the create handler in slot p takes its access check *)
AccessCheckStep(p) ==
    /\ req[p].op = "attemptCreate" /\ req[p].pc = "access"
    /\ req'[p] # req[p]

(* C20: attempt create passes the entitlement check if and only if the exam
   is free or the user has a COMPLETED purchase whose validity end is at or
   after the current time and which covers the exam or its test series;
   otherwise create fails with Forbidden and no attempt is created. *)
C20_AccessIffEntitled ==
    [][\A p \in Procs :
          AccessCheckStep(p) =>
              IF Entitled(req[p].userId, req[p].exam, now)
              THEN req'[p].op = "attemptCreate" /\ req'[p].pc = "existing"
              ELSE /\ req'[p] = Idle
                   /\ resp' = [op |-> "attemptCreate", result |-> "Forbidden",
                               slot |-> p]
                   /\ attempts' = attempts]_vars

----------------------------------------------------------------------------
(* SpecCreatePayload: attempt create with a payload that carries the
   optional fields of CreateAttemptDto; a student may complete an attempt so
   that the next create is not refused. *)

CreatePayloads ==
    {[CreateAttemptDto(e) EXCEPT !.status = st, !.timeSpent = t] :
        e \in {"e1", "e0"},
        st \in {None, Some("IN_PROGRESS"), Some("SUBMITTED"), Some("EVALUATED")},
        t \in {None, Some(30)}}

NextCreatePayload ==
    \/ \E u \in Students, d \in CreatePayloads :
          AttemptCreateFindExam("r1", u, d)
    \/ AttemptCreateSteps("r1")
    \/ \E u \in Students, id \in 1..MaxAttempts :
          AttemptUpdateFind("r1", u, id,
              [BlankUpdateAttemptDto EXCEPT !.status = Some("COMPLETED")])
    \/ AttemptUpdateWrite("r1")

SpecCreatePayload == Init /\ [][NextCreatePayload]_vars

(* C21: every attempt produced by a successful create has status
   IN_PROGRESS, whatever fields the request payload carries. *)
C21_CreatedInProgress ==
    [][\A b \in attempts' :
          (\A a \in attempts : a.id # b.id) => b.status = "IN_PROGRESS"]_vars

----------------------------------------------------------------------------
(* SpecStudentPatch: the students s1 and s2 send PATCH /attempts/:id with
   any status and, in FullPatch, with every other field of UpdateAttemptDto
   filled in; teacher t1 grades in between, so that the fields a student
   must not touch hold values. *)

FullPatch ==
    [status |-> None, timeSpent |-> Some(30), score |-> Some(999),
     percentage |-> Some(Ratio(99, 1)), rank |-> Some(1),
     correctAnswers |-> Some(9), incorrectAnswers |-> Some(8),
     unattempted |-> Some(7), accuracy |-> Some(Ratio(98, 1)),
     answerSheetUrl |-> Some("mine.pdf"),
     evaluationStatus |-> Some("Done"), feedback |-> Some("perfect"),
     evaluatedBy |-> Some("s1")]

PatchDtos ==
    {[d EXCEPT !.status = st] :
        d \in {BlankUpdateAttemptDto, FullPatch},
        st \in {None} \cup {Some(x) : x \in AttemptStatus}}

PatchTeacherDtos ==
    GradingTeacherDtos
    \cup {[BlankUpdateAttemptDto EXCEPT !.rank = Some(5),
                                        !.feedback = Some("good"),
                                        !.answerSheetUrl = Some("sheet.pdf"),
                                        !.evaluationStatus = Some("Checked")]}

NextStudentPatch ==
    \/ \E u \in Students, id \in 1..MaxAttempts, d \in PatchDtos :
          AttemptUpdateFind("r1", u, id, d)
    \/ \E d \in PatchTeacherDtos : AttemptUpdateFind("r1", "t1", 1, d)
    \/ AttemptUpdateSteps("r1")

SpecStudentPatch == InitGrading /\ [][NextStudentPatch]_vars

(* the fields of an attempt a patch of a student must never reach *)
ProtectedFields ==
    {"score", "percentage", "rank", "feedback", "evaluationStatus",
     "evaluatedBy", "correctAnswers", "incorrectAnswers", "unattempted",
     "accuracy", "answerSheetUrl"}

(* the fields the Scoring Engine fills at submit *)
EngineFields ==
    {"score", "percentage", "correctAnswers", "incorrectAnswers",
     "unattempted", "accuracy"}

StudentWrite(p) ==
    /\ req[p].op = "attemptUpdate" /\ req[p].pc = "write"
    /\ ~req[p].isTeacher
    /\ req'[p] = Idle

(* C22: a student's attempt update on another user's attempt is rejected
   with Forbidden, one asking for a status other than SUBMITTED or COMPLETED
   is rejected with BadRequest, and neither changes anything; the write of
   an accepted one is on the student's own attempt, changes status only to
   the SUBMITTED or COMPLETED asked for and timeSpent only to the value
   sent, and leaves every protected field as it was, or as the Scoring
   Engine computed it at submit: never as the patch supplied it. *)
C22_StudentUpdateFrame ==
    [][/\ \A u \in Students, id \in 1..MaxAttempts, d \in PatchDtos :
             \A a \in AttemptById(id) :
                AttemptUpdateFind("r1", u, id, d) =>
                    /\ attempts' = attempts
                    /\ a.userId # u =>
                          /\ req'["r1"] = Idle
                          /\ resp'.result = "Forbidden"
                    /\ (/\ a.userId = u
                        /\ IsSet(d.status)
                        /\ Val(d.status) \notin {"SUBMITTED", "COMPLETED"}) =>
                          /\ req'["r1"] = Idle
                          /\ resp'.result = "BadRequest"
       /\ \A p \in Procs :
             StudentWrite(p) =>
                LET d == req[p].dto
                IN /\ \A x \in attempts : x.id # req[p].id => x \in attempts'
                   /\ \A a \in AttemptById(req[p].id) :
                         \E b \in attempts' :
                            /\ b.id = a.id
                            /\ a.userId = req[p].userId
                            /\ b.userId = a.userId /\ b.examId = a.examId
                            /\ b.maxScore = a.maxScore
                            /\ \/ b.status = a.status /\ ~IsSet(d.status)
                               \/ /\ d.status = Some(b.status)
                                  /\ b.status \in {"SUBMITTED", "COMPLETED"}
                            /\ b.timeSpent =
                                  IF IsSet(d.timeSpent) THEN d.timeSpent
                                  ELSE a.timeSpent
                            /\ \A f \in ProtectedFields :
                                  \/ b[f] = a[f]
                                  \/ /\ f \in EngineFields
                                     /\ d.status = Some("SUBMITTED")
                                     /\ IsSet(req[p].scoreData)
                                     /\ b[f] = ScoreUpdateData(
                                                  Val(req[p].scoreData),
                                                  a.maxScore)[f]]_vars

(* s1 completed the attempt t1 had graded with a patch that carried every
   field: the grade stands *)
C22_Witness ==
    /\ resp = [op |-> "attemptUpdate", result |-> "OK", slot |-> "r1"]
    /\ \E a \in attempts :
          /\ a.status = "COMPLETED" /\ a.timeSpent = Some(30)
          /\ a.score = Some(700) /\ a.rank = Some(5)
          /\ a.evaluatedBy = Some("t1")

----------------------------------------------------------------------------
(* SpecAssign: the admin, a teacher and a student call assign with any
   evaluator, on the attempt of s1 or on an attempt that does not exist,
   before and after the submit of s1 and the grading of t1. *)

AssignCallers == {"adm", "t1", "s1"}

AssignEvaluators == {"t1", "t2", "s1", "adm", "nobody"}

NextAssign ==
    \/ \E u \in AssignCallers, id \in 1..MaxAttempts,
          ev \in AssignEvaluators :
          AttemptAssignFind("r1", u, id, ev)
    \/ AttemptAssignWrite("r1")
    \/ AttemptUpdateFind("r1", "s1", 1,
          [BlankUpdateAttemptDto EXCEPT !.status = Some("SUBMITTED")])
    \/ \E d \in PatchTeacherDtos : AttemptUpdateFind("r1", "t1", 1, d)
    \/ AttemptUpdateSteps("r1")

SpecAssign == InitGrading /\ [][NextAssign]_vars

AssignAllowed(u, id, ev) ==
    /\ u \in Admins
    /\ \E a \in attempts : a.id = id
    /\ ev \in Teachers

(* C23: assign goes through only for an admin, an existing attempt and an
   evaluator who is a teacher; a refused call changes nothing; the write of
   an accepted one sets evaluatedBy to the evaluator and evaluationStatus to
   "Assigned" and leaves every other field of the attempt, every other
   attempt and every answer as they were. *)
C23_AssignFrame ==
    [][/\ \A u \in AssignCallers, id \in 1..MaxAttempts,
            ev \in AssignEvaluators :
             AttemptAssignFind("r1", u, id, ev) =>
                /\ attempts' = attempts /\ answers' = answers
                /\ IF AssignAllowed(u, id, ev)
                   THEN /\ req'["r1"].op = "attemptAssign"
                        /\ req'["r1"].id = id
                        /\ req'["r1"].evaluatorId = ev
                   ELSE /\ req'["r1"] = Idle
                        /\ resp'.op = "attemptAssign"
                        /\ resp'.result # "OK"
       /\ \A p \in Procs :
             (req[p].op = "attemptAssign" /\ req'[p] = Idle) =>
                /\ answers' = answers /\ exams' = exams
                /\ IF resp'.result = "OK"
                   THEN \E a \in attempts :
                           /\ a.id = req[p].id
                           /\ attempts' = (attempts \ {a}) \cup
                                 {[a EXCEPT
                                     !.evaluatedBy = Some(req[p].evaluatorId),
                                     !.evaluationStatus = Some("Assigned")]}
                   ELSE attempts' = attempts]_vars

(* the admin assigned t2 to the attempt s1 had submitted and t1 had graded:
   status, score and rank are what they were *)
C23_Witness ==
    /\ resp = [op |-> "attemptAssign", result |-> "OK", slot |-> "r1"]
    /\ \E a \in attempts :
          /\ a.evaluatedBy = Some("t2")
          /\ a.evaluationStatus = Some("Assigned")
          /\ a.status = "EVALUATED" /\ a.score = Some(700)
          /\ a.rank = Some(5) /\ IsSet(a.submitTime)

----------------------------------------------------------------------------
(* SpecTime: the time a student spends on the answers to q1 and q2 of an
   attempt in progress, reported with answer create (POST /answers) and with
   answer update (PATCH /answers/:id), one request at a time; s1 may submit. *)

TimePayloads ==
    {[BlankAnswerDto EXCEPT !.timeSpent = Some(30)],
     [BlankAnswerDto EXCEPT !.selectedOption = Some("a")],
     [BlankAnswerDto EXCEPT !.selectedOption = Some("b"),
                            !.timeSpent = Some(0)]}

NextTime ==
    \/ \E q \in {"q1", "q2"}, pl \in TimePayloads :
          AnswerCreateFindAttempt("r1", "s1", CreateAnswerDto(1, q, pl))
    \/ AnswerCreateSteps("r1")
    \/ \E id \in 1..2, pl \in TimePayloads :
          AnswerUpdateFind("r1", "s1", id, pl)
    \/ AnswerUpdateSteps("r1")
    \/ AttemptUpdateFind("r1", "s1", 1,
          [BlankUpdateAttemptDto EXCEPT !.status = Some("SUBMITTED")])
    \/ AttemptUpdateSteps("r1")

SpecTime == InitAnswers /\ [][NextTime]_vars

(* the stored time of an answer, a missing value counting as 0 *)
StoredTime(r) == IF IsSet(r.timeSpent) THEN Val(r.timeSpent) ELSE 0

AnswerUpdateWrites(p) ==
    /\ req[p].op = "answerUpdate" /\ req[p].pc = "write"
    /\ req'[p] = Idle
    /\ resp'.result = "OK"

(* C24: a successful answer update that carries timeSpent = t leaves the
   answer, of an attempt in progress, with its previous timeSpent (0 when
   missing) plus t; one that carries none leaves timeSpent as it was. *)
C24_UpdateAddsTime ==
    [][\A p \in Procs :
          AnswerUpdateWrites(p) =>
             \A r \in AnswerById(req[p].id) :
                /\ \A a \in AttemptById(r.attemptId) :
                      a.status = "IN_PROGRESS"
                /\ \E r2 \in answers' :
                      /\ r2.id = r.id
                      /\ IF IsSet(req[p].dto.timeSpent)
                         THEN r2.timeSpent =
                                 Some(StoredTime(r)
                                      + Val(req[p].dto.timeSpent))
                         ELSE r2.timeSpent = r.timeSpent]_vars

(* two updates with timeSpent 30 on an answer created without a time: 60 *)
C24_Witness ==
    /\ resp = [op |-> "answerUpdate", result |-> "OK", slot |-> "r1"]
    /\ \E r \in answers :
          r.timeSpent = Some(60) /\ r.selectedOption = Some("a")

AnswerUpsertWrites(p) ==
    /\ req[p].op = "answerCreate" /\ req[p].pc = "write"
    /\ req[p].existing
    /\ req'[p] = Idle
    /\ resp'.result = "OK"

(* C25: over the writes of a student to an answer, through create/upsert
   and through update alike, the stored timeSpent never decreases, and a
   write that carries timeSpent = t on an existing answer leaves the stored
   value at the previous one plus t. *)
C25_TimeAccumulates ==
    [][/\ \A r \in answers : \A r2 \in answers' :
             r2.id = r.id => StoredTime(r2) >= StoredTime(r)
       /\ \A p \in Procs :
             (AnswerUpsertWrites(p) \/ AnswerUpdateWrites(p)) =>
                \A r \in answers : \A r2 \in answers' :
                   (/\ r2.id = r.id
                    /\ r2 # r
                    /\ IsSet(req[p].dto.timeSpent)) =>
                       StoredTime(r2) =
                          StoredTime(r) + Val(req[p].dto.timeSpent)]_vars

----------------------------------------------------------------------------
(* The scoring rule, written from its statement: the answers of attempt a
   with their questions, the MCQ answers in mcq being the ones counted. *)

RECURSIVE Total(_, _)
Total(w, S) ==
    IF S = {} THEN 0
    ELSE LET x == CHOOSE y \in S : TRUE
         IN w[x] + Total(w, S \ {x})

ExpectedScore(a, mcq) ==
    LET exam == exams[a.examId]
        right == {r \in mcq :
                    r.selectedOption = questions[r.questionId].correctOption}
        wrong == mcq \ right
        graded == {r \in answers :
                     /\ r.attemptId = a.id
                     /\ questions[r.questionId].type = "DESCRIPTIVE"
                     /\ r.marks # None}
        passed == {r \in graded :
                     2 * r.marks[1] >=
                        (IF questions[r.questionId].marks = None THEN 0
                         ELSE questions[r.questionId].marks[1])}
        worth == [r \in right |->
                    IF questions[r.questionId].marks \in {None, <<0>>}
                    THEN 100 ELSE questions[r.questionId].marks[1]]
        penalty == IF exam.negativeMarking /\ exam.incorrectMark # None
                   THEN exam.incorrectMark[1] ELSE 0
        S == Total(worth, right) + Cardinality(wrong) * penalty
             + Total([r \in graded |-> r.marks[1]], graded)
    IN [score |-> IF S < 0 THEN 0 ELSE S,
        correctAnswers |-> Cardinality(right) + Cardinality(passed),
        incorrectAnswers |-> Cardinality(wrong)
                             + Cardinality(graded \ passed)]

McqAnswers(a) ==
    {r \in answers :
        r.attemptId = a.id /\ questions[r.questionId].type = "MCQ"}

MatchesExpected(a, e) ==
    /\ a.score = <<e.score>>
    /\ a.correctAnswers = <<e.correctAnswers>>
    /\ a.incorrectAnswers = <<e.incorrectAnswers>>

(* C26 as stated: the score written at submit is max(0, S), S adding
   question.marks (1 if unset) for each correct MCQ answer, exam.incorrectMark
   for each other MCQ answer under negative marking and the marks of each
   graded descriptive answer; correctAnswers and incorrectAnswers count
   those answers, every MCQ answer that is not correct being incorrect. *)
C26_EveryMcqAnswerCounted ==
    \A a \in attempts :
        ScoredAtSubmit(a) => MatchesExpected(a, ExpectedScore(a, McqAnswers(a)))

(* C26, amended: the same, over the MCQ answers that carry a selected
   option; an MCQ answer without one adds nothing to the score and is
   counted neither as correct nor as incorrect. *)
C26_SelectedMcqAnswersCounted ==
    \A a \in attempts :
        ScoredAtSubmit(a) =>
            MatchesExpected(a,
                ExpectedScore(a, {r \in McqAnswers(a) :
                                     r.selectedOption \notin {None, <<"">>}}))

(* one MCQ answer without an option, one correct (2 marks), one wrong
   (-0.66) and the descriptive answer graded 10: 11.34, two correct, one
   incorrect *)
C26_Witness ==
    \E a \in attempts :
        /\ ScoredAtSubmit(a)
        /\ exams[a.examId].negativeMarking
        /\ \E r \in McqAnswers(a) : r.selectedOption = None
        /\ a.score = Some(1134)
        /\ a.correctAnswers = Some(2)
        /\ a.incorrectAnswers = Some(1)

----------------------------------------------------------------------------
(* SpecSubmitRace: two requests of s1 at a time on one attempt in progress:
   answer create and answer update of the answer to q1 in one, the submit of
   the attempt in the other, their steps interleaving at the awaits. *)

NextSubmitRace ==
    \E p \in Procs :
        \/ \E pl \in MarkPayloads :
              AnswerCreateFindAttempt(p, "s1", CreateAnswerDto(1, "q1", pl))
        \/ AnswerCreateSteps(p)
        \/ AnswerUpdateFind(p, "s1", 1,
              [BlankAnswerDto EXCEPT !.selectedOption = Some("b")])
        \/ AnswerUpdateSteps(p)
        \/ AttemptUpdateFind(p, "s1", 1,
              [BlankUpdateAttemptDto EXCEPT !.status = Some("SUBMITTED")])
        \/ AttemptUpdateSteps(p)

SpecSubmitRace == InitAnswers /\ [][NextSubmitRace]_vars

(* a submit of attempt a has read the answers, or has been written *)
ScoringHasRead(a) ==
    \/ a.status = "SUBMITTED"
    \/ \E p \in Procs :
          /\ req[p].op = "attemptUpdate"
          /\ req[p].id = a.id
          /\ req[p].dto.status = Some("SUBMITTED")
          /\ req[p].pc \in {"questions", "write"}

(* C27: under any interleaving of a student's answer create/upsert or
   update with the submit of the same attempt, no answer of the attempt is
   created or changed once the scoring pass of the submit has read the
   answers, so that the score written at submit is the Scoring Engine's
   result on the answers stored for the attempt. *)
C27_NoAnswerWriteAfterScoringRead ==
    [][\A a \in attempts :
          ScoringHasRead(a) =>
             {r \in answers' : r.attemptId = a.id}
                = {r \in answers : r.attemptId = a.id}]_vars

----------------------------------------------------------------------------
(* C28: right after a successful bulkEvaluate the score of the attempt is
   the sum of the marks now stored on the answers the call wrote, for every
   list of evaluations, one that names a question more than once included. *)
C28_BulkScoreIsStoredMarks ==
    [][\A p \in Procs :
          BulkCommits(p) =>
             LET written == {r2 \in answers' :
                               \E r \in answers :
                                  /\ r.id = r2.id
                                  /\ Matching(req[p].evaluations,
                                              req[p].id, r) # {}}
             IN \A b \in attempts' :
                   b.id = req[p].id =>
                      b.score = Some(Total([r \in written |-> Val(r.marks)],
                                           written))]_vars

----------------------------------------------------------------------------
(* SpecQuestions: the teachers add question q4 to exam e1 (t2 is refused)
   and t1 removes q1 or q4, while s1 answers the questions of an attempt in
   progress on e1, t1 marks the first answer and s1 submits; one request at
   a time. *)

QuestionPayloads ==
    {[BlankAnswerDto EXCEPT !.selectedOption = Some("a")],
     [BlankAnswerDto EXCEPT !.timeSpent = Some(30)]}

NextQuestions ==
    \/ \E t \in Teachers :
          QuestionCreateFindExam("r1", t, "q4", CreateQuestionDto("e1"))
    \/ QuestionCreateInsert("r1")
    \/ QuestionCreateCount("r1")
    \/ \E q \in {"q1", "q4"} : QuestionRemoveFind("r1", "t1", q)
    \/ QuestionRemoveCountAnswers("r1")
    \/ QuestionRemoveDeactivate("r1")
    \/ QuestionRemoveDelete("r1")
    \/ QuestionRemoveCount("r1")
    \/ \E q \in {"q1", "q2", "q4"}, pl \in QuestionPayloads :
          AnswerCreateFindAttempt("r1", "s1", CreateAnswerDto(1, q, pl))
    \/ AnswerCreateSteps("r1")
    \/ AnswerEvaluateFind("r1", "t1", 1, [marks |-> 600, feedback |-> None])
    \/ AnswerEvaluateWrite("r1")
    \/ AttemptUpdateFind("r1", "s1", 1,
          [BlankUpdateAttemptDto EXCEPT !.status = Some("SUBMITTED")])
    \/ AttemptUpdateSteps("r1")

SpecQuestions == InitAnswers /\ [][NextQuestions]_vars

ScoredSubmitWrite(p) ==
    /\ req[p].op = "attemptUpdate" /\ req[p].pc = "write"
    /\ ~req[p].isTeacher
    /\ req[p].dto.status = Some("SUBMITTED")
    /\ IsSet(req[p].scoreData)
    /\ req'[p] = Idle
    /\ resp'.result = "OK"

QuestionsOfExam(e) == {q \in DOMAIN questions : questions[q].examId = e}

(* C29: after any sequence of question, answer and attempt operations, a
   student submit whose scoring succeeds stores unattempted = (number of
   questions of the exam) - (number of answers of the attempt), which is at
   least 0, and correctAnswers + incorrectAnswers + unattempted is at most
   the number of questions of the exam. *)
C29_UnattemptedCount ==
    [][\A p \in Procs :
          ScoredSubmitWrite(p) =>
             \A b \in attempts' :
                b.id = req[p].id =>
                   LET n == Cardinality(QuestionsOfExam(b.examId))
                       m == Cardinality({r \in answers : r.attemptId = b.id})
                   IN /\ b.unattempted = Some(n - m)
                      /\ n - m >= 0
                      /\ Val(b.correctAnswers) + Val(b.incorrectAnswers)
                            + Val(b.unattempted) <= n]_vars

(* t1 added q4 to e1 and removed q1, which s1 had answered, so q1 is only
   deactivated; s1 answered all three questions, one without an option, before
   the submit *)
C29_Witness ==
    /\ resp = [op |-> "attemptUpdate", result |-> "OK", slot |-> "r1"]
    /\ "q4" \in QuestionsOfExam("e1")
    /\ "q1" \in QuestionsOfExam("e1") /\ ~questions["q1"].isActive
    /\ \E a \in attempts :
          /\ ScoredAtSubmit(a)
          /\ a.unattempted = Some(0)
          /\ Val(a.correctAnswers) + Val(a.incorrectAnswers) = 2

----------------------------------------------------------------------------
(* SpecRange: the same start as SpecGrading (maxScore 10), the teacher t1
   sending marks and scores that the request validation lets through: a
   score is any integer, the marks of an evaluation any number from 0 up,
   the marks of a bulk evaluation anything. *)

RangeTeacherDtos ==
    {[BlankUpdateAttemptDto EXCEPT !.score = Some(sc)] :
        sc \in {700, 1500, -500}}

RangeEvaluateDtos ==
    {[marks |-> 600, feedback |-> None], [marks |-> 1500, feedback |-> None]}

RangeEvaluations ==
    {<<Evaluation("q1", 200, None), Evaluation("q2", 700, None)>>,
     <<Evaluation("q1", 600, None), Evaluation("q2", 900, None)>>,
     <<Evaluation("q2", -100, None)>>}

NextRange ==
    \/ AttemptUpdateFind("r1", "s1", 1,
          [BlankUpdateAttemptDto EXCEPT !.status = Some("SUBMITTED")])
    \/ \E d \in RangeTeacherDtos : AttemptUpdateFind("r1", "t1", 1, d)
    \/ AttemptUpdateSteps("r1")
    \/ \E d \in RangeEvaluateDtos : AnswerEvaluateFind("r1", "t1", 2, d)
    \/ AnswerEvaluateWrite("r1")
    \/ \E evs \in RangeEvaluations : BulkEvaluateFind("r1", "t1", 1, evs)
    \/ BulkEvaluateCommit("r1")
    \/ BulkEvaluateAbort("r1")

SpecRange == InitGrading /\ [][NextRange]_vars

(* C30: every attempt whose score is set has 0 <= score <= maxScore, and so
   a percentage in 0..100, whichever of student submit, evaluator attempt
   update or bulkEvaluate wrote the score and whatever marks the evaluator
   supplied. *)
C30_ScoreWithinMaxScore ==
    \A a \in attempts :
        IsSet(a.score) =>
            /\ 0 <= Val(a.score) /\ Val(a.score) <= a.maxScore
            /\ IsSet(a.percentage) =>
                  /\ 0 <= Val(a.percentage).num
                  /\ Val(a.percentage).num <= 100 * Val(a.percentage).den

====
